---- MODULE Spec2Model ----
(***************************************************************************)
(* Blob storage substrate of bazel-buildbarn: the integrity (Merkle)       *)
(* adapter, the leaf back ends (Redis, HTTP cache, gRPC relay) and the     *)
(* sharding adapter, as state machines translated from the Go sources.     *)
(*                                                                         *)
(* The specifications share the variables below:                           *)
(*   SpecMerkle  merkleBlobAccess over one wrapped leaf store              *)
(*   SpecReader  the verifying reader of Get under repeated Reads          *)
(*   SpecRace    a Get being read while a Put stores the same digest       *)
(*   SpecLeaf    the leaf back ends called directly, with their failures   *)
(*   SpecShard   shardingBlobAccess over a list of back-end slots          *)
(*   SpecRelay   FindMissing of the gRPC relay, digests with instances     *)
(*   SpecByteStream  the ByteStream server over one leaf back end          *)
(*   SpecReadLoop  the loop of ByteStream Read, one iteration at a time    *)
(*   SpecFanOut  one sharding FindMissing, goroutine by goroutine          *)
(*   SpecHash    the hashing loop of the sharding adapter's getBackend     *)
(*   SpecFormat  the relay's resource names through the server's parsers   *)
(*   SpecStreams   the readers over the Write and the Read stream          *)
(*   SpecLoop      the worker goroutines' loop around subscribeAndExecute  *)
(*   SpecRelayPut  the requests of the relay's Put and the server's Write  *)
(*   SpecWorker  startup of the worker process and its goroutines          *)
(* A specification parks the variables it does not use at a fixed value.   *)
(***************************************************************************)
EXTENDS Integers, Sequences, FiniteSets, TLC

VARIABLES
    kind,      \* which leaf back end is wrapped: "redis", "http" or "grpc"
    store,     \* the leaf's content: key -> bytes, or NoBlob
    focus,     \* the digest the operations of this behaviour are about
    op,        \* the adapter operation in progress or last completed
    rd,        \* the reader of that operation (client side and verifying side)
    calls,     \* calls that reached the wrapped store during that operation
    shard      \* state of the sharding adapter (SpecShard)

vars == <<kind, store, focus, op, rd, calls, shard>>

---------------------------------------------------------------------------
(* Bounds of the model. *)

\* Longest byte sequence a blob or a reader holds.
MaxLen == 2
\* Longest batch handed to FindMissing.
MaxBatch == 2
\* Number of slots in the back-end list of the sharding adapter.
MaxBackends == 2
\* Most segments a resource name is split into by its slashes.
MaxSegments == 5
\* Most requests a client sends on one ByteStream Write stream.
MaxRequests == 2
\* Files a previous run may have left in the cache directory; worker goroutines.
MaxFiles == 2
MaxWorkers == 2
\* Most Reads a client makes on one stream.
MaxReads == 4

---------------------------------------------------------------------------
(* Bytes, blobs and the hash family. *)

Byte == {0, 1}

Blobs == UNION {[1..n -> Byte] : n \in 0..MaxLen}

\* The value of a key the leaf does not hold: no byte sequence.
NoBlob == <<-1>>

\* State of a fresh hash.Hash, as digestFormat() returns it.
digestFormat == 3

\* hash.Hash.Write as io.TeeReader drives it: the running checksum absorbs the
\* bytes of a chunk one by one. The family is collision free on the blobs of the
\* model, as SHA-256 is taken to be on real ones.
RECURSIVE partialChecksumWrite(_, _)
partialChecksumWrite(h, chunk) ==
    IF chunk = <<>> THEN h
    ELSE partialChecksumWrite((h * 3 + Head(chunk) + 1) % 256, Tail(chunk))

\* hash.Hash.Sum(nil): the finalized checksum, one byte wide in the model.
partialChecksumSum(h) == h

HashOf(data) == partialChecksumSum(partialChecksumWrite(digestFormat, data))

Range(s) == {s[i] : i \in 1..Len(s)}

HexDigits == <<"0", "1", "2", "3", "4", "5", "6", "7",
               "8", "9", "a", "b", "c", "d", "e", "f">>

UpperHexDigits == <<"0", "1", "2", "3", "4", "5", "6", "7",
                    "8", "9", "A", "B", "C", "D", "E", "F">>

\* hex.EncodeToString of a one-byte checksum: two lowercase digits.
hexEncodeToString(v) == <<HexDigits[(v \div 16) + 1], HexDigits[(v % 16) + 1]>>

\* Value of one hexadecimal digit; hex.DecodeString takes both cases.
fromHexChar(c) ==
    IF \E i \in 1..16 : HexDigits[i] = c
    THEN (CHOOSE i \in 1..16 : HexDigits[i] = c) - 1
    ELSE IF \E i \in 1..16 : UpperHexDigits[i] = c
    THEN (CHOOSE i \in 1..16 : UpperHexDigits[i] = c) - 1
    ELSE -1

\* hex.DecodeString: the checksum a hash string stands for, -1 on a bad string.
RECURSIVE hexDecodeString(_)
hexDecodeString(s) ==
    IF s = <<>> THEN 0
    ELSE LET hi == hexDecodeString(SubSeq(s, 1, Len(s) - 1))
             lo == fromHexChar(s[Len(s)])
         IN IF hi < 0 \/ lo < 0 THEN -1 ELSE hi * 16 + lo

---------------------------------------------------------------------------
(* Digests. *)

\* Hash strings of the lengths util.DigestFormatFromLength recognizes (one
\* family, of two hexadecimal characters, in the model).
RecognizedHashLengths == {Len(hexEncodeToString(0))}

\* The blobs whose digests the client names.
NamedBlobs == {<<>>, <<0>>, <<0, 1>>}

\* Hash strings the client may send: the hashes of the named blobs, and strings
\* that are malformed (uppercase, a character that is no hexadecimal digit, a
\* length no family has).
GoodHashes == {hexEncodeToString(HashOf(b)) : b \in NamedBlobs}

BadHashes == {<<"0", "A">>, <<"g", "0">>, <<"0">>}

\* Every hash string with every size up to that of the named blobs, and a
\* negative one; most of these digests name no blob at all.
Digests == [hash : GoodHashes \cup BadHashes, size : {Len(b) : b \in NamedBlobs} \cup {-1}]

DigestOf(b) == [hash |-> hexEncodeToString(HashOf(b)), size |-> Len(b)]

\* Whether bytes are the content a digest names.
Matches(d, data) == Len(data) = d.size /\ hexEncodeToString(HashOf(data)) = d.hash

\* validateDigest relying on hex.DecodeString, which takes uppercase digits too.
validateDigest_DecodeString(d) ==
    IF Len(d.hash) \notin RecognizedHashLengths THEN "InvalidArgument"
    ELSE IF hexDecodeString(d.hash) < 0 THEN "InvalidArgument"
    ELSE IF d.size < 0 THEN "InvalidArgument"
    ELSE "OK"

DigestFormatFromLength(n) ==
    IF n \in RecognizedHashLengths THEN "OK" ELSE "InvalidArgument"

validateDigest(d) ==
    IF DigestFormatFromLength(Len(d.hash)) # "OK" THEN "InvalidArgument"
    ELSE IF \E i \in 1..Len(d.hash) :
              ~(\E j \in 1..16 : HexDigits[j] = d.hash[i])
    THEN "InvalidArgument"
    ELSE IF d.size < 0 THEN "InvalidArgument"
    ELSE "OK"

---------------------------------------------------------------------------
(* The leaf back ends: what a call does to the leaf's content. *)

LeafKinds == {"redis", "http", "grpc"}

\* util.DigestKeyer of the Redis back end: the key names hash and size.
blobKeyer(d) == <<d.hash, d.size>>

\* The URL of the HTTP back end names the hash alone: address/prefix/hash.
remoteURL(d) == <<d.hash>>

\* The resource name of the gRPC relay names hash and size: blobs/hash/size.
casResourceName(d) == <<d.hash, d.size>>

LeafKey(k, d) ==
    IF k = "http" THEN remoteURL(d)
    ELSE IF k = "redis" THEN blobKeyer(d)
    ELSE casResourceName(d)

\* The leaf's content is a map from the keys it holds to their bytes.
Lookup(st, key) == IF key \in DOMAIN st THEN st[key] ELSE NoBlob

Set(st, key, value) ==
    [x \in DOMAIN st \cup {key} |-> IF x = key THEN value ELSE st[x]]

Del(st, key) == [x \in DOMAIN st \ {key} |-> st[x]]

EmptyStore == [x \in {} |-> NoBlob]

\* redisBlobAccess.Get: redis.Nil is NotFound, else the value.
redisGet(st, d) ==
    IF Lookup(st, blobKeyer(d)) = NoBlob THEN [err |-> "NotFound", data |-> <<>>]
    ELSE [err |-> "nil", data |-> Lookup(st, blobKeyer(d))]

\* remoteBlobAccess.Get: 404 is NotFound, 200 hands out the response body.
remoteGet(st, d) ==
    IF Lookup(st, remoteURL(d)) = NoBlob THEN [err |-> "NotFound", data |-> <<>>]
    ELSE [err |-> "nil", data |-> Lookup(st, remoteURL(d))]

\* contentAddressableStorageBlobAccess.Get: the first chunk is received eagerly.
\* The peer's ByteStream server sends no chunk for an empty blob, so Recv
\* returns io.EOF with a nil chunk, and chunk.Data dereferences nil.
casGet(st, d) ==
    IF Lookup(st, casResourceName(d)) = NoBlob THEN [err |-> "NotFound", data |-> <<>>]
    ELSE IF Lookup(st, casResourceName(d)) = <<>> THEN [err |-> "panic", data |-> <<>>]
    ELSE [err |-> "nil", data |-> Lookup(st, casResourceName(d))]

LeafGet(k, st, d) ==
    IF k = "http" THEN remoteGet(st, d)
    ELSE IF k = "redis" THEN redisGet(st, d)
    ELSE casGet(st, d)

\* Delete of a store that implements deletion (Redis DEL).
redisDelete(st, d) ==
    [err |-> "nil", store |-> Del(st, blobKeyer(d))]

\* remoteBlobAccess.Delete: the HTTP caching protocol has no deletion.
remoteDelete(st, d) == [err |-> "Unimplemented", store |-> st]

\* contentAddressableStorageBlobAccess.Delete: the protocol has no deletion.
casDelete(st, d) == [err |-> "Unimplemented", store |-> st]

LeafDelete(k, st, d) ==
    IF k = "http" THEN remoteDelete(st, d)
    ELSE IF k = "redis" THEN redisDelete(st, d)
    ELSE casDelete(st, d)

\* The digests of a batch, in order, whose key the leaf does not hold.
\* The loop over the batch when it gives up after the first missing digest.
MissingOf_StopsAtFirst(k, st, batch) ==
    LET absent(d) == Lookup(st, LeafKey(k, d)) = NoBlob
        found == SelectSeq(batch, absent)
    IN  IF found = <<>> THEN <<>> ELSE <<Head(found)>>

RECURSIVE MissingOf(_, _, _)
MissingOf(k, st, batch) ==
    IF batch = <<>> THEN <<>>
    ELSE (IF Lookup(st, LeafKey(k, Head(batch))) = NoBlob THEN <<Head(batch)>> ELSE <<>>)
         \o MissingOf(k, st, Tail(batch))

\* redisBlobAccess.FindMissing: pipelined EXISTS, one per digest.
redisFindMissing(st, batch) ==
    [err |-> "nil", missing |-> MissingOf("redis", st, batch)]

\* remoteBlobAccess.FindMissing: one HEAD per digest, 404 means missing.
remoteFindMissing(st, batch) ==
    [err |-> "nil", missing |-> MissingOf("http", st, batch)]

\* contentAddressableStorageBlobAccess.FindMissing: one FindMissingBlobs RPC.
casFindMissing(st, batch) ==
    [err |-> "nil", missing |-> MissingOf("grpc", st, batch)]

LeafFindMissing(k, st, batch) ==
    IF k = "http" THEN remoteFindMissing(st, batch)
    ELSE IF k = "redis" THEN redisFindMissing(st, batch)
    ELSE casFindMissing(st, batch)

\* redisBlobAccess.Put after ioutil.ReadAll returned the whole value: SET.
redisSet(st, d, value) == Set(st, blobKeyer(d), value)

\* The HTTP cache server storing the body of a PUT request it received whole.
remoteStored(st, d, body) == Set(st, remoteURL(d), body)

\* The gRPC peer storing an upload after CloseAndRecv: the terminating chunk
\* was sent and the stream closed.
casCloseAndRecv(st, d, sent) == Set(st, casResourceName(d), sent)

LeafStored(k, st, d, data) ==
    IF k = "http" THEN remoteStored(st, d, data)
    ELSE IF k = "redis" THEN redisSet(st, d, data)
    ELSE casCloseAndRecv(st, d, data)

---------------------------------------------------------------------------
(* The verifying reader of the integrity adapter. *)

\* A verifying reader that counts the bytes and never compares the checksum.
checksumValidatingReaderRead_SizeOnly(r, chunk, err) ==
    LET nLen == Len(chunk)
        teed == [r EXCEPT !.partialChecksum = partialChecksumWrite(@, chunk)]
        counted == [teed EXCEPT !.sizeLeft = @ - nLen]
    IN  IF nLen > r.sizeLeft
        THEN [r |-> teed, n |-> 0, err |-> r.errorCode, invalidated |-> TRUE]
        ELSE IF err = "EOF" /\ counted.sizeLeft # 0
        THEN [r |-> counted, n |-> 0, err |-> r.errorCode, invalidated |-> TRUE]
        ELSE [r |-> counted, n |-> nLen, err |-> err, invalidated |-> FALSE]

\* checksumValidatingReader.Read on a reader r = [sizeLeft, partialChecksum,
\* expectedChecksum, errorCode], given what the wrapped reader returned: a chunk
\* (its n bytes) and err ("nil", "EOF" or an error of its own). The tee has
\* written the chunk into the checksum before the size is looked at. The result
\* names the reader's next state, the (n, err) handed to the caller and whether
\* the invalidator ran.
checksumValidatingReaderRead(r, chunk, err) ==
    LET nLen == Len(chunk)
        teed == [r EXCEPT !.partialChecksum = partialChecksumWrite(@, chunk)]
        counted == [teed EXCEPT !.sizeLeft = @ - nLen]
    IN  IF nLen > r.sizeLeft
        THEN [r |-> teed, n |-> 0, err |-> r.errorCode, invalidated |-> TRUE]
        ELSE IF err = "EOF" /\ counted.sizeLeft # 0
        THEN [r |-> counted, n |-> 0, err |-> r.errorCode, invalidated |-> TRUE]
        ELSE IF err = "EOF"
                /\ partialChecksumSum(counted.partialChecksum) # r.expectedChecksum
        THEN [r |-> counted, n |-> 0, err |-> r.errorCode, invalidated |-> TRUE]
        ELSE [r |-> counted, n |-> nLen, err |-> err, invalidated |-> FALSE]

\* The reader merkleBlobAccess.Get wraps around the wrapped store's stream.
getValidatingReader(d) ==
    [sizeLeft |-> d.size, partialChecksum |-> digestFormat,
     expectedChecksum |-> hexDecodeString(d.hash), errorCode |-> "Internal"]

\* The reader merkleBlobAccess.Put hands to the wrapped store.
putValidatingReader(d) ==
    [sizeLeft |-> d.size, partialChecksum |-> digestFormat,
     expectedChecksum |-> hexDecodeString(d.hash), errorCode |-> "InvalidArgument"]

\* No verifying reader: the digest was refused before one was made.
noValidatingReader ==
    [sizeLeft |-> 0, partialChecksum |-> digestFormat,
     expectedChecksum |-> 0, errorCode |-> "none"]

---------------------------------------------------------------------------
(* The integrity adapter, merkleBlobAccess, over one wrapped leaf. *)

\* What the surroundings do to one call of a leaf: the context may be cancelled
\* before the call, and one thing may go wrong. "transport": the back end
\* cannot be reached or answers the command with an error; "status": the HTTP
\* server answers 500; "reader": the reader handed to Put breaks off with an
\* error; "request": the key or the request cannot be built.
\* A cancelled context is paired only with the fault that a back end can meet
\* before it looks at the context.
Envs ==
    {e \in [cancelled : BOOLEAN,
            fault : {"none", "transport", "status", "reader", "request"}] :
        e.cancelled => e.fault \in {"none", "request"}}

NoFault == [cancelled |-> FALSE, fault |-> "none"]

IdleOp ==
    [name |-> "None", phase |-> "idle", res |-> "nil",
     batch |-> <<>>, missing |-> <<>>, prev |-> NoBlob, log |-> <<>>,
     env |-> NoFault, instances |-> <<>>]

\* data, pos: the bytes of the wrapped reader and how many were read from it;
\* err: the error the wrapped reader raises instead of data ("nil": none);
\* failed: the wrapped reader broke off with an error of its own;
\* out: the bytes handed on to whoever reads (the leaf on Put, the client on
\* Get); wrapped, v: the verifying reader around it, when there is one;
\* invalidations: how often that reader called its invalidator.
NoReader ==
    [data |-> <<>>, pos |-> 0, err |-> "nil", failed |-> FALSE,
     closed |-> FALSE, out |-> <<>>, wrapped |-> FALSE, v |-> noValidatingReader,
     invalidations |-> 0]

ShardParked == "parked"

Done(name, res) == [IdleOp EXCEPT !.name = name, !.phase = "done", !.res = res]

ErrOrOK(err) == IF err \in {"nil", "EOF"} THEN "OK" ELSE err

\* The companions of the digest under test in a FindMissing batch: a well
\* formed digest and a malformed one.
Companions == {DigestOf(<<>>), [hash |-> <<"0", "A">>, size |-> 0]}

Batches(d) == UNION {[1..n -> {d} \cup Companions] : n \in 0..MaxBatch}

\* What one Read of the wrapped reader may return: the next n >= 1 bytes, the
\* rest of the bytes together with io.EOF, or (mayFail) some bytes and an error
\* of the transport. A reader made from an error returns that error.
UnderlyingReads(r, mayFail) ==
    LET left == Len(r.data) - r.pos
        next(n) == SubSeq(r.data, r.pos + 1, r.pos + n)
    IN  IF r.err # "nil" THEN {[chunk |-> <<>>, err |-> r.err]}
        ELSE {[chunk |-> next(n), err |-> "nil"] : n \in 1..left}
             \cup {[chunk |-> next(left), err |-> "EOF"]}
             \cup (IF mayFail
                   THEN {[chunk |-> next(n), err |-> "Unavailable"] : n \in 0..left}
                   ELSE {})

\* A read-side invalidator that only logs and leaves the wrapped store alone.
getInvalidator_NoDelete(k, st, d, cs) ==
    [store |-> st, calls |-> cs, log |-> <<"Failed to delete corrupted blob">>]

\* The invalidator of merkleBlobAccess.Get: Delete on the wrapped store, with
\* the outcome logged and otherwise ignored.
getInvalidator(k, st, d, cs) ==
    [store |-> LeafDelete(k, st, d).store, calls |-> Append(cs, "Delete"),
     log |-> IF LeafDelete(k, st, d).err = "nil"
             THEN <<"Successfully deleted corrupted blob">>
             ELSE <<"Failed to delete corrupted blob">>]

\* A write-side invalidator that deletes, as the read side does.
putInvalidator_Deletes(k, st, d, cs) == getInvalidator(k, st, d, cs)

\* The invalidator of merkleBlobAccess.Put: func() {}.
putInvalidator(k, st, d, cs) == [store |-> st, calls |-> cs, log |-> <<>>]

\* merkleBlobAccess.Put up to the call of the wrapped store's Put. The caller
\* passes sizeBytes = digest.SizeBytes (anything else is log.Fatal).
merkleBlobAccessPut ==
    /\ op.phase # "reading"
    /\ \E b \in Blobs :
         IF validateDigest(focus) # "OK"
         THEN /\ op' = [Done("Put", validateDigest(focus))
                           EXCEPT !.prev = Lookup(store, LeafKey(kind, focus))]
              /\ rd' = [NoReader EXCEPT !.data = b, !.closed = TRUE]
              /\ calls' = <<>>
         ELSE /\ op' = [IdleOp EXCEPT !.name = "Put", !.phase = "reading",
                                      !.prev = Lookup(store, LeafKey(kind, focus))]
              /\ rd' = [NoReader EXCEPT !.data = b, !.wrapped = TRUE,
                                        !.v = putValidatingReader(focus)]
              /\ calls' = <<"Put">>
    /\ UNCHANGED <<kind, store, focus, shard>>

\* One Read of the wrapped store's Put on the verifying reader, and what the
\* store does with the result: keep the bytes and go on; at io.EOF store what it
\* was given (SET, the completed PUT request, CloseAndRecv); on an error give up
\* and return the error. Every leaf closes the reader when it stops.
merklePutRead ==
    /\ op.name = "Put" /\ op.phase = "reading"
    /\ \E u \in UnderlyingReads(rd, TRUE) :
         LET res == checksumValidatingReaderRead(rd.v, u.chunk, u.err)
             out2 == rd.out \o SubSeq(u.chunk, 1, res.n)
             rd2 == [rd EXCEPT !.pos = @ + Len(u.chunk), !.v = res.r,
                               !.out = out2,
                               !.failed = @ \/ u.err \notin {"nil", "EOF"},
                               !.invalidations = @ + (IF res.invalidated THEN 1 ELSE 0)]
             inv == IF res.invalidated
                    THEN putInvalidator(kind, store, focus, calls)
                    ELSE [store |-> store, calls |-> calls, log |-> <<>>]
         IN  /\ calls' = inv.calls
             /\ IF res.err = "nil"
                THEN /\ rd' = rd2
                     /\ store' = inv.store
                     /\ op' = op
                ELSE IF res.err = "EOF"
                THEN /\ rd' = [rd2 EXCEPT !.closed = TRUE]
                     /\ store' = LeafStored(kind, inv.store, focus, out2)
                     /\ op' = [op EXCEPT !.phase = "done", !.res = "OK"]
                ELSE /\ rd' = [rd2 EXCEPT !.closed = TRUE]
                     /\ store' = inv.store
                     /\ op' = [op EXCEPT !.phase = "done", !.res = res.err,
                                         !.log = @ \o inv.log]
    /\ UNCHANGED <<kind, focus, shard>>

\* The HTTP cache server during remoteBlobAccess.Put: the request declares
\* ContentLength = sizeBytes, so it is complete for the server as soon as that
\* many body bytes have arrived, and the server stores them. The verifying
\* reader compares the checksum only on the Read that returns io.EOF, after
\* those bytes were handed to the transport. (A request of declared length 0
\* with a body is sent chunked and completes only at io.EOF.)
remoteServerReceived ==
    /\ kind = "http"
    /\ op.name = "Put" /\ op.phase = "reading"
    /\ focus.size > 0 /\ Len(rd.out) = focus.size
    /\ Lookup(store, remoteURL(focus)) # rd.out
    /\ store' = remoteStored(store, focus, rd.out)
    /\ UNCHANGED <<kind, focus, op, rd, calls, shard>>

\* merkleBlobAccess.Get: an invalid digest yields a reader made from the error;
\* otherwise the wrapped store's stream inside a verifying reader.
merkleBlobAccessGet ==
    /\ op.phase # "reading"
    /\ IF validateDigest(focus) # "OK"
       THEN /\ op' = [IdleOp EXCEPT !.name = "Get", !.phase = "reading"]
            /\ rd' = [NoReader EXCEPT !.err = validateDigest(focus)]
            /\ calls' = <<>>
       ELSE LET g == LeafGet(kind, store, focus)
            IN  /\ calls' = <<"Get">>
                /\ IF g.err = "panic"
                   THEN /\ op' = Done("Get", "panic")
                        /\ rd' = NoReader
                   ELSE /\ op' = [IdleOp EXCEPT !.name = "Get", !.phase = "reading"]
                        /\ rd' = [NoReader EXCEPT !.data = g.data, !.err = g.err,
                                                  !.wrapped = TRUE,
                                                  !.v = getValidatingReader(focus)]
    /\ UNCHANGED <<kind, store, focus, shard>>

\* One Read of the client on the stream Get returned. The client stops at
\* io.EOF and at the first error, and closes the stream.
merkleGetRead ==
    /\ op.name = "Get" /\ op.phase = "reading"
    /\ \E u \in UnderlyingReads(rd, kind # "redis") :
         LET res == IF rd.wrapped
                    THEN checksumValidatingReaderRead(rd.v, u.chunk, u.err)
                    ELSE [r |-> rd.v, n |-> Len(u.chunk), err |-> u.err,
                          invalidated |-> FALSE]
             rd2 == [rd EXCEPT !.pos = @ + Len(u.chunk), !.v = res.r,
                               !.out = @ \o SubSeq(u.chunk, 1, res.n),
                               !.failed = @ \/ u.err \notin {"nil", "EOF"},
                               !.invalidations = @ + (IF res.invalidated THEN 1 ELSE 0)]
             inv == IF res.invalidated
                    THEN getInvalidator(kind, store, focus, calls)
                    ELSE [store |-> store, calls |-> calls, log |-> <<>>]
         IN  /\ calls' = inv.calls
             /\ store' = inv.store
             /\ IF res.err = "nil"
                THEN /\ rd' = rd2
                     /\ op' = op
                ELSE /\ rd' = [rd2 EXCEPT !.closed = TRUE]
                     /\ op' = [op EXCEPT !.phase = "done", !.res = ErrOrOK(res.err),
                                         !.log = @ \o inv.log]
    /\ UNCHANGED <<kind, focus, shard>>

\* merkleBlobAccess.Delete.
merkleBlobAccessDelete ==
    /\ op.phase # "reading"
    /\ IF validateDigest(focus) # "OK"
       THEN /\ op' = Done("Delete", validateDigest(focus))
            /\ calls' = <<>>
            /\ store' = store
       ELSE LET r == LeafDelete(kind, store, focus)
            IN  /\ op' = Done("Delete", ErrOrOK(r.err))
                /\ calls' = <<"Delete">>
                /\ store' = r.store
    /\ rd' = NoReader
    /\ UNCHANGED <<kind, focus, shard>>

\* merkleBlobAccess.FindMissing: every digest of the batch is validated before
\* the wrapped store is asked.
merkleBlobAccessFindMissing ==
    /\ op.phase # "reading"
    /\ \E batch \in Batches(focus) :
         IF \E i \in 1..Len(batch) : validateDigest(batch[i]) # "OK"
         THEN /\ op' = [Done("FindMissing", "InvalidArgument") EXCEPT !.batch = batch]
              /\ calls' = <<>>
         ELSE LET r == LeafFindMissing(kind, store, batch)
              IN  /\ op' = [Done("FindMissing", ErrOrOK(r.err))
                                EXCEPT !.batch = batch, !.missing = r.missing]
                  /\ calls' = <<"FindMissing">>
    /\ rd' = NoReader
    /\ UNCHANGED <<kind, store, focus, shard>>

\* The wrapped leaf may hold anything under the digest's key: the right blob,
\* other bytes (corruption), or nothing.
MerkleInit ==
    /\ kind \in LeafKinds
    /\ focus \in Digests
    /\ store \in {EmptyStore} \cup {Set(EmptyStore, LeafKey(kind, focus), c) : c \in Blobs}
    /\ op = IdleOp
    /\ rd = NoReader
    /\ calls = <<>>
    /\ shard = ShardParked

MerkleNext ==
    \/ merkleBlobAccessPut
    \/ merklePutRead
    \/ remoteServerReceived
    \/ merkleBlobAccessGet
    \/ merkleGetRead
    \/ merkleBlobAccessDelete
    \/ merkleBlobAccessFindMissing

SpecMerkle == MerkleInit /\ [][MerkleNext]_vars

---------------------------------------------------------------------------
(* The verifying reader of Get, read on by a client after it has failed.   *)

\* reads: the Reads made on the stream; n, res: what the last of them
\* returned; failedAt: the Read at which the verifying reader first reported
\* a deviation of size or checksum (0: it has not).
ReaderIdle == [name |-> "Read", phase |-> "reading", reads |-> 0, n |-> 0,
               res |-> "nil", failedAt |-> 0, log |-> <<>>]

\* What the wrapped stream returns to a Read: as UnderlyingReads, and once it
\* has broken off with an error of its own, that error again.
UnderlyingReadsOn(r, mayFail) ==
    IF r.failed THEN {[chunk |-> <<>>, err |-> "Unavailable"]}
    ELSE UnderlyingReads(r, mayFail)

\* checksumValidatingReader.Read, called by the client whatever the Reads
\* before it returned. The reader keeps no record of a failure: every call
\* reads the wrapped stream and compares again.
checksumValidatingReaderReadOn ==
    /\ op.reads < MaxReads
    /\ \E u \in UnderlyingReadsOn(rd, kind # "redis") :
         LET res == checksumValidatingReaderRead(rd.v, u.chunk, u.err)
             inv == IF res.invalidated
                    THEN getInvalidator(kind, store, focus, calls)
                    ELSE [store |-> store, calls |-> calls, log |-> <<>>]
         IN  /\ rd' = [rd EXCEPT !.pos = @ + Len(u.chunk), !.v = res.r,
                                 !.out = @ \o SubSeq(u.chunk, 1, res.n),
                                 !.failed = @ \/ u.err \notin {"nil", "EOF"},
                                 !.invalidations = @ + (IF res.invalidated THEN 1 ELSE 0)]
             /\ op' = [op EXCEPT !.reads = @ + 1, !.n = res.n, !.res = res.err,
                                 !.failedAt = IF @ = 0 /\ res.invalidated
                                              THEN op.reads + 1 ELSE @,
                                 !.log = @ \o inv.log]
             /\ calls' = inv.calls
             /\ store' = inv.store
    /\ UNCHANGED <<kind, focus, shard>>

\* merkleBlobAccess.Get has returned a verifying reader around the stream of
\* a leaf that holds some bytes under a well-formed digest.
ReaderInit ==
    /\ kind \in LeafKinds
    /\ focus \in {d \in Digests : validateDigest(d) = "OK"}
    /\ store \in {Set(EmptyStore, LeafKey(kind, focus), c) : c \in Blobs}
    /\ LeafGet(kind, store, focus).err = "nil"
    /\ op = ReaderIdle
    /\ rd = [NoReader EXCEPT !.data = LeafGet(kind, store, focus).data,
                             !.wrapped = TRUE, !.v = getValidatingReader(focus)]
    /\ calls = <<"Get">>
    /\ shard = ShardParked

ReaderNext == checksumValidatingReaderReadOn

SpecReader == ReaderInit /\ [][ReaderNext]_vars

---------------------------------------------------------------------------
(* A Get through the integrity adapter that is being read while a Put      *)
(* stores the right bytes under the same digest.                           *)

\* put: whether the concurrent Put has taken place; the rest as for one Get.
RaceIdle == [name |-> "Get", phase |-> "reading", res |-> "nil", put |-> "none",
             log |-> <<>>]

\* The blob the digest stands for.
ValidBlob(d) == CHOOSE b \in NamedBlobs : DigestOf(b) = d

\* One Read of the client on the stream of the Get; it stops at io.EOF and at
\* the first error. The verifying reader compares at the end of the stream it
\* was opened on, and its invalidator deletes whatever the digest's key holds
\* at that moment.
raceGetRead ==
    /\ op.phase = "reading"
    /\ \E u \in UnderlyingReads(rd, FALSE) :
         LET res == checksumValidatingReaderRead(rd.v, u.chunk, u.err)
             inv == IF res.invalidated
                    THEN getInvalidator(kind, store, focus, calls)
                    ELSE [store |-> store, calls |-> calls, log |-> <<>>]
             rd2 == [rd EXCEPT !.pos = @ + Len(u.chunk), !.v = res.r,
                               !.out = @ \o SubSeq(u.chunk, 1, res.n),
                               !.invalidations = @ + (IF res.invalidated THEN 1 ELSE 0)]
         IN  /\ calls' = inv.calls
             /\ store' = inv.store
             /\ IF res.err = "nil"
                THEN rd' = rd2 /\ op' = op
                ELSE /\ rd' = [rd2 EXCEPT !.closed = TRUE]
                     /\ op' = [op EXCEPT !.phase = "done", !.res = ErrOrOK(res.err),
                                         !.log = @ \o inv.log]
    /\ UNCHANGED <<kind, focus, shard>>

\* merkleBlobAccess.Put of the right bytes by another caller: the verifying
\* reader finds nothing wrong and the wrapped store holds the bytes.
racePut ==
    /\ op.put = "none"
    /\ store' = LeafStored(kind, store, focus, ValidBlob(focus))
    /\ op' = [op EXCEPT !.put = "done"]
    /\ calls' = Append(calls, "Put")
    /\ UNCHANGED <<kind, focus, rd, shard>>

\* Get has returned a verifying reader around the stream of a leaf that holds
\* some bytes, right or wrong, under the digest of a blob.
RaceInit ==
    /\ kind \in LeafKinds
    /\ focus \in {DigestOf(b) : b \in NamedBlobs}
    /\ store \in {Set(EmptyStore, LeafKey(kind, focus), c) : c \in Blobs}
    /\ LeafGet(kind, store, focus).err = "nil"
    /\ op = RaceIdle
    /\ rd = [NoReader EXCEPT !.data = LeafGet(kind, store, focus).data,
                             !.wrapped = TRUE, !.v = getValidatingReader(focus)]
    /\ calls = <<"Get">>
    /\ shard = ShardParked

RaceNext == raceGetRead \/ racePut

SpecRace == RaceInit /\ [][RaceNext]_vars

---------------------------------------------------------------------------
(* The leaf back ends called directly, with the failures of one call. *)

\* redisBlobAccess.Put: the context is looked at first, and a cancelled one
\* returns before the reader is read or closed; then ioutil.ReadAll and
\* r.Close(), the key, and SET.
redisBlobAccessPut(st, d, data, env) ==
    IF env.cancelled THEN [err |-> "Canceled", store |-> st, closed |-> FALSE]
    ELSE IF env.fault = "reader" THEN [err |-> "Unknown", store |-> st, closed |-> TRUE]
    ELSE IF env.fault = "request"
    THEN [err |-> "InvalidArgument", store |-> st, closed |-> TRUE]
    ELSE IF env.fault = "transport"
    THEN [err |-> "Unavailable", store |-> st, closed |-> TRUE]
    ELSE [err |-> "nil", store |-> redisSet(st, d, data), closed |-> TRUE]

\* remoteBlobAccess.Put: http.NewRequest (on failure the reader is closed here),
\* then ctxhttp.Do, whose transport closes the body on every path. Only the
\* error of Do is returned: the response, and with it the status code, is
\* dropped, so a 500 is a success. The server stores what it answered 200 to.
remoteBlobAccessPut(st, d, data, env) ==
    IF env.fault = "request" THEN [err |-> "Unknown", store |-> st, closed |-> TRUE]
    ELSE IF env.cancelled THEN [err |-> "Canceled", store |-> st, closed |-> TRUE]
    ELSE IF env.fault = "transport"
    THEN [err |-> "Unavailable", store |-> st, closed |-> TRUE]
    ELSE IF env.fault = "reader" THEN [err |-> "Unknown", store |-> st, closed |-> TRUE]
    ELSE IF env.fault = "status" THEN [err |-> "nil", store |-> st, closed |-> TRUE]
    ELSE [err |-> "nil", store |-> remoteStored(st, d, data), closed |-> TRUE]

\* contentAddressableStorageBlobAccess.Put: defer r.Close(); the Write stream is
\* opened (a cancelled context or an unreachable peer fails here or at a Send),
\* the chunks are sent, and CloseAndRecv returns the peer's verdict.
contentAddressableStorageBlobAccessPut(st, d, data, env) ==
    IF env.cancelled THEN [err |-> "Canceled", store |-> st, closed |-> TRUE]
    ELSE IF env.fault = "transport"
    THEN [err |-> "Unavailable", store |-> st, closed |-> TRUE]
    ELSE IF env.fault = "reader" THEN [err |-> "Unknown", store |-> st, closed |-> TRUE]
    ELSE [err |-> "nil", store |-> casCloseAndRecv(st, d, data), closed |-> TRUE]

LeafPut(k, st, d, data, env) ==
    IF k = "http" THEN remoteBlobAccessPut(st, d, data, env)
    ELSE IF k = "redis" THEN redisBlobAccessPut(st, d, data, env)
    ELSE contentAddressableStorageBlobAccessPut(st, d, data, env)

\* redisBlobAccess.Get.
redisBlobAccessGet(st, d, env) ==
    IF env.cancelled THEN [err |-> "Canceled", data |-> <<>>]
    ELSE IF env.fault = "request" THEN [err |-> "InvalidArgument", data |-> <<>>]
    ELSE IF env.fault = "transport" THEN [err |-> "Unavailable", data |-> <<>>]
    ELSE redisGet(st, d)

\* remoteBlobAccess.Get: an error of ctxhttp.Get, else the status code decides.
remoteBlobAccessGet(st, d, env) ==
    IF env.cancelled THEN [err |-> "Canceled", data |-> <<>>]
    ELSE IF env.fault = "transport" THEN [err |-> "Unavailable", data |-> <<>>]
    ELSE IF env.fault = "status" THEN [err |-> "Unknown", data |-> <<>>]
    ELSE remoteGet(st, d)

\* contentAddressableStorageBlobAccess.Get.
contentAddressableStorageBlobAccessGet(st, d, env) ==
    IF env.cancelled THEN [err |-> "Canceled", data |-> <<>>]
    ELSE IF env.fault = "transport" THEN [err |-> "Unavailable", data |-> <<>>]
    ELSE casGet(st, d)

LeafGetCall(k, st, d, env) ==
    IF k = "http" THEN remoteBlobAccessGet(st, d, env)
    ELSE IF k = "redis" THEN redisBlobAccessGet(st, d, env)
    ELSE contentAddressableStorageBlobAccessGet(st, d, env)

\* redisBlobAccess.FindMissing: the context, the empty batch, the keys, the
\* pipeline.
redisBlobAccessFindMissing(st, batch, env) ==
    IF env.cancelled THEN [err |-> "Canceled", missing |-> <<>>]
    ELSE IF batch = <<>> THEN [err |-> "nil", missing |-> <<>>]
    ELSE IF env.fault = "request" THEN [err |-> "InvalidArgument", missing |-> <<>>]
    ELSE IF env.fault = "transport" THEN [err |-> "Unavailable", missing |-> <<>>]
    ELSE redisFindMissing(st, batch)

\* remoteBlobAccess.FindMissing: one HEAD per digest; the first request that
\* fails, or is answered with another status than 200 and 404, ends the call
\* with no list. An empty batch sends no request.
remoteBlobAccessFindMissing(st, batch, env) ==
    IF batch = <<>> THEN [err |-> "nil", missing |-> <<>>]
    ELSE IF env.cancelled THEN [err |-> "Canceled", missing |-> <<>>]
    ELSE IF env.fault = "transport" THEN [err |-> "Unavailable", missing |-> <<>>]
    ELSE IF env.fault = "status" THEN [err |-> "Unknown", missing |-> <<>>]
    ELSE remoteFindMissing(st, batch)

\* contentAddressableStorageBlobAccess.FindMissing, all digests of one instance.
contentAddressableStorageBlobAccessFindMissing(st, batch, env) ==
    IF batch = <<>> THEN [err |-> "nil", missing |-> <<>>]
    ELSE IF env.cancelled THEN [err |-> "Canceled", missing |-> <<>>]
    ELSE IF env.fault = "transport" THEN [err |-> "Unavailable", missing |-> <<>>]
    ELSE casFindMissing(st, batch)

\* The instance names digests are built with: the empty one and another.
InstanceNames == {"", "main"}

\* The instance name of each digest of a batch.
InstancesOf(batch) == [1..Len(batch) -> InstanceNames]

\* contentAddressableStorageBlobAccess.FindMissing without the comparison of
\* each digest's instance name with the first.
FindMissingInstances_NoComparison(st, batch, instances, env) ==
    IF batch = <<>> THEN [err |-> "nil", missing |-> <<>>, rpcs |-> <<>>]
    ELSE LET r == contentAddressableStorageBlobAccessFindMissing(st, batch, env)
         IN  [err |-> r.err, missing |-> r.missing,
              rpcs |-> <<[instance |-> instances[1], digests |-> batch]>>]

\* contentAddressableStorageBlobAccess.FindMissing over digests that carry an
\* instance name: the empty batch returns at once; the instance of the first
\* digest is the request's, and a digest of another instance ends the call
\* before FindMissingBlobs is called. rpcs: the calls of FindMissingBlobs.
FindMissingInstances(st, batch, instances, env) ==
    IF batch = <<>> THEN [err |-> "nil", missing |-> <<>>, rpcs |-> <<>>]
    ELSE IF \E i \in 1..Len(batch) : instances[i] # instances[1]
    THEN [err |-> "InvalidArgument", missing |-> <<>>, rpcs |-> <<>>]
    ELSE LET r == contentAddressableStorageBlobAccessFindMissing(st, batch, env)
         IN  [err |-> r.err, missing |-> r.missing,
              rpcs |-> <<[instance |-> instances[1], digests |-> batch]>>]

LeafFindMissingCall(k, st, batch, env) ==
    IF k = "http" THEN remoteBlobAccessFindMissing(st, batch, env)
    ELSE IF k = "redis" THEN redisBlobAccessFindMissing(st, batch, env)
    ELSE contentAddressableStorageBlobAccessFindMissing(st, batch, env)

\* Put on the leaf, with a reader over the bytes b.
leafPut ==
    \E b \in Blobs, env \in Envs :
        LET r == LeafPut(kind, store, focus, b, env)
        IN  /\ op' = [Done("Put", ErrOrOK(r.err)) EXCEPT !.env = env]
            /\ rd' = [NoReader EXCEPT !.data = b, !.closed = r.closed,
                                      !.failed = (env.fault = "reader")]
            /\ store' = r.store
            /\ UNCHANGED <<kind, focus, calls, shard>>

\* Get on the leaf; the client reads the stream to its end.
leafGet ==
    \E env \in Envs :
        LET r == LeafGetCall(kind, store, focus, env)
        IN  /\ op' = [Done("Get", ErrOrOK(r.err)) EXCEPT !.env = env]
            /\ rd' = [NoReader EXCEPT !.out = r.data, !.closed = TRUE]
            /\ UNCHANGED <<kind, store, focus, calls, shard>>

\* FindMissing on the leaf.
leafFindMissing ==
    \E batch \in Batches(focus), env \in Envs :
        LET r == LeafFindMissingCall(kind, store, batch, env)
        IN  /\ op' = [Done("FindMissing", ErrOrOK(r.err))
                          EXCEPT !.env = env, !.batch = batch, !.missing = r.missing]
            /\ rd' = NoReader
            /\ UNCHANGED <<kind, store, focus, calls, shard>>

\* Delete on the leaf.
leafDelete ==
    LET r == LeafDelete(kind, store, focus)
    IN  /\ op' = Done("Delete", ErrOrOK(r.err))
        /\ rd' = NoReader
        /\ store' = r.store
        /\ UNCHANGED <<kind, focus, calls, shard>>

\* The leaves do not look into a digest, so one malformed digest stands for
\* all of them.
LeafDigests == {DigestOf(b) : b \in NamedBlobs} \cup {[hash |-> <<"0", "A">>, size |-> 0]}

LeafInit ==
    /\ kind \in LeafKinds
    /\ focus \in LeafDigests
    /\ store \in {EmptyStore} \cup
                 {Set(EmptyStore, LeafKey(kind, focus), c) : c \in NamedBlobs}
    /\ op = IdleOp
    /\ rd = NoReader
    /\ calls = <<>>
    /\ shard = ShardParked

LeafNext ==
    \/ leafPut
    \/ leafGet
    \/ leafFindMissing
    \/ leafDelete

SpecLeaf == LeafInit /\ [][LeafNext]_vars

\* FindMissing on the gRPC relay with digests of instances of their own. The
\* call changes nothing a later call could see, so one call is looked at.
relayFindMissing ==
    \E batch \in Batches(focus), env \in Envs :
      \E instances \in InstancesOf(batch) :
        LET r == FindMissingInstances(store, batch, instances, env)
        IN  /\ op.phase = "idle"
            /\ op' = [Done("FindMissing", ErrOrOK(r.err))
                          EXCEPT !.env = env, !.batch = batch, !.missing = r.missing,
                                 !.instances = instances, !.log = r.rpcs]
            /\ rd' = NoReader
            /\ UNCHANGED <<kind, store, focus, calls, shard>>

RelayInit == LeafInit /\ kind = "grpc"

RelayNext == relayFindMissing

SpecRelay == RelayInit /\ [][RelayNext]_vars

---------------------------------------------------------------------------
(* The sharding adapter: shardingBlobAccess over a list of back-end slots. *)

\* uint64 values are kept as eight limbs of eight bits, lowest first, so that
\* the multiplication wraps at 2^64 as it does in Go.
RECURSIVE xorBits(_, _, _)
xorBits(a, b, n) ==
    IF n = 0 THEN 0
    ELSE (((a % 2) + (b % 2)) % 2) + 2 * xorBits(a \div 2, b \div 2, n - 1)

\* h ^= uint64(c), for a character code below 256.
xorUint64(h, c) == [h EXCEPT ![1] = xorBits(@, c, 8)]

\* 1099511628211 = 2^40 + 435.
fnvPrime == <<179, 1, 0, 0, 0, 1, 0, 0>>

RECURSIVE mulColumn(_, _, _, _)
mulColumn(a, b, k, i) ==
    IF i > k THEN 0 ELSE a[i] * b[k + 1 - i] + mulColumn(a, b, k, i + 1)

RECURSIVE mulLimbs(_, _, _, _)
mulLimbs(a, b, k, carry) ==
    IF k > 8 THEN <<>>
    ELSE LET s == carry + mulColumn(a, b, k, 1)
         IN  <<s % 256>> \o mulLimbs(a, b, k + 1, s \div 256)

\* h *= 1099511628211, modulo 2^64.
mulUint64(h) == mulLimbs(h, fnvPrime, 1, 0)

\* h modulo n, from the highest limb down.
RECURSIVE modUint64(_, _, _)
modUint64(h, n, i) ==
    IF i = 0 THEN 0 ELSE (modUint64(h, n, i - 1) * 256 + h[9 - i]) % n

IndexOf(s, c) == CHOOSE i \in 1..Len(s) : s[i] = c

LowerLetters == <<"a", "b", "c", "d", "e", "f", "g", "h", "i", "j", "k", "l", "m">>

\* The code of a character of a digest key: the loop ranges over the key's
\* characters, so a character of several bytes comes as its one code point.
CharCode(c) ==
    IF c = "-" THEN 45
    ELSE IF c = "U+00E9" THEN 233
    ELSE IF c \in Range(LowerLetters) THEN 96 + IndexOf(LowerLetters, c)
    ELSE IF c \in {"A", "B", "C", "D", "E", "F"}
    THEN 54 + IndexOf(UpperHexDigits, c)
    ELSE 47 + IndexOf(HexDigits, c)

RECURSIVE FormatInt(_)
FormatInt(n) ==
    IF n < 0 THEN <<"-">> \o FormatInt(-n)
    ELSE IF n < 10 THEN <<HexDigits[n + 1]>>
    ELSE FormatInt(n \div 10) \o <<HexDigits[(n % 10) + 1]>>

DigestKeyFormats == {"WithoutInstance", "WithInstance"}

\* util.Digest.GetKey: hash, size and, in the format with instance, the
\* instance name, joined by dashes.
GetKey(d, format) ==
    IF format = "WithInstance"
    THEN d.hash \o <<"-">> \o FormatInt(d.size) \o <<"-">> \o d.instance
    ELSE d.hash \o <<"-">> \o FormatInt(d.size)

\* The loop of getBackend: FNV-1a over the characters of the key.
RECURSIVE fnv1a(_, _)
fnv1a(h, key) ==
    IF key = <<>> THEN h
    ELSE fnv1a(mulUint64(xorUint64(h, CharCode(Head(key)))), Tail(key))

\* The callback getBackend hands to the selector: it remembers the slot and
\* answers whether the slot is drained, that is, whether to go on.
isDrained(backends, index) == backends[index] = "nil"

\* ShardSelector.GetShard: candidates are offered, starting from the slot the
\* hash falls on, until the callback answers that one is not drained. The
\* result is the last slot offered.
RECURSIVE GetShard(_, _, _)
GetShard(backends, start, k) ==
    LET index == ((start + k) % Len(backends)) + 1
    IN  IF isDrained(backends, index) THEN GetShard(backends, start, k + 1) ELSE index

\* Two blobs of the default instance and the first of them in another one.
ShardDigests ==
    {[instance |-> <<>>, hash |-> DigestOf(b).hash, size |-> Len(b)] : b \in {<<>>, <<0>>}}
        \cup {[instance |-> <<"i">>, hash |-> DigestOf(<<>>).hash, size |-> 0]}

HashInitializations ==
    {<<37, 35, 34, 132, 228, 156, 242, 203>>, <<1, 0, 0, 0, 0, 0, 0, 0>>}

\* The hash of every digest under every configuration, as a table.
keyHash ==
    [x \in HashInitializations \X DigestKeyFormats \X ShardDigests |->
        fnv1a(x[1], GetKey(x[3], x[2]))] @@ <<>>

\* The slot each hash falls on in a list of n slots, counted from 0.
firstCandidate ==
    [x \in (DOMAIN keyHash) \X (1..MaxBackends) |->
        modUint64(keyHash[x[1]], x[2], 8)] @@ <<>>

\* getBackend when the answer of the callback is not heeded: the first
\* candidate is taken.
getBackend_FirstCandidate(sh, d) ==
    GetShard([i \in 1..Len(sh.backends) |-> "live"],
             firstCandidate[<<<<sh.hashInitialization, sh.digestKeyFormat, d>>,
                              Len(sh.backends)>>], 0)

getBackend(sh, d) ==
    GetShard(sh.backends,
             firstCandidate[<<<<sh.hashInitialization, sh.digestKeyFormat, d>>,
                              Len(sh.backends)>>], 0)

Slots == 1..MaxBackends

\* Each back end fails in its own way, so that an error tells where it is from.
BackendErrors == <<"Unavailable", "Internal", "DeadlineExceeded", "Aborted">>

Outcomes(b) == {"nil", BackendErrors[b]}

ShardIdle ==
    [name |-> "none", phase |-> "idle", res |-> "nil", digest |-> <<>>, backend |-> 0,
     batch |-> <<>>, digestsPerBackend |-> <<>>, goroutines |-> <<>>,
     resultsChan |-> <<>>, received |-> <<>>, missing |-> <<>>, err |-> "nil"]

ShardDone(name, d, b, res) ==
    [ShardIdle EXCEPT !.name = name, !.phase = "done", !.digest = d, !.backend = b,
                      !.res = res]

\* shardingBlobAccess.Get: the call and its result are those of the back end
\* getBackend names.
shardingBlobAccessGet ==
    \E d \in ShardDigests :
      LET b == getBackend(shard, d) IN
      \E e \in Outcomes(b) :
        LET res == IF e # "nil" THEN e
                   ELSE IF d \in shard.held[b] THEN "OK" ELSE "NotFound"
        IN  /\ op.phase \in {"idle", "done"}
            /\ op' = ShardDone("Get", d, b, res)
            /\ UNCHANGED <<kind, store, focus, rd, calls, shard>>

\* shardingBlobAccess.Put.
shardingBlobAccessPut ==
    \E d \in ShardDigests :
      LET b == getBackend(shard, d) IN
      \E e \in Outcomes(b) :
        LET sh == IF e # "nil" THEN shard
                  ELSE [shard EXCEPT !.held[b] = @ \cup {d}]
        IN  /\ op.phase \in {"idle", "done"}
            /\ op' = ShardDone("Put", d, b, ErrOrOK(e))
            /\ shard' = sh
            /\ UNCHANGED <<kind, store, focus, rd, calls>>

\* shardingBlobAccess.Delete.
shardingBlobAccessDelete ==
    \E d \in ShardDigests :
      LET b == getBackend(shard, d) IN
      \E e \in Outcomes(b) :
        LET sh == IF e # "nil" THEN shard
                  ELSE [shard EXCEPT !.held[b] = @ \ {d}]
        IN  /\ op.phase \in {"idle", "done"}
            /\ op' = ShardDone("Delete", d, b, ErrOrOK(e))
            /\ shard' = sh
            /\ UNCHANGED <<kind, store, focus, rd, calls>>

\* The grouping as it would be if every contacted back end got the whole batch.
SubBatch_WholeBatch(sh, batch, b) == batch

\* The digests of a batch that getBackend sends to slot b, in batch order.
SubBatch(sh, batch, b) ==
    LET keep(d) == getBackend(sh, d) = b
    IN  SelectSeq(batch, keep)

ShardBatches == UNION {[1..n -> ShardDigests] : n \in 0..MaxBatch}

\* shardingBlobAccess.FindMissing up to the start of its goroutines: the batch
\* is grouped by back end, the channel gets one place per group, and one
\* goroutine per group is started. With no group the loop over the results
\* has nothing to wait for and the call returns at once.
shardingFindMissingStart ==
    \E batch \in ShardBatches :
        LET contacted == {getBackend(shard, batch[i]) : i \in 1..Len(batch)}
            groups == [b \in contacted |-> SubBatch(shard, batch, b)]
        IN  /\ op.phase \in {"idle", "done"}
            /\ op' = [ShardIdle EXCEPT
                        !.name = "FindMissing",
                        !.phase = IF contacted = {} THEN "done" ELSE "receiving",
                        !.res = IF contacted = {} THEN "OK" ELSE "nil",
                        !.batch = batch,
                        !.digestsPerBackend = groups,
                        !.goroutines = [b \in contacted |-> "running"]]
            /\ UNCHANGED <<kind, store, focus, rd, calls, shard>>

\* One goroutine: callFindMissing on its back end with its group, and the send
\* of the result on the channel. A failing back end returns no list.
callFindMissing ==
    \E b \in DOMAIN op.goroutines, e \in {"nil"} \cup Range(BackendErrors) :
        LET digests == op.digestsPerBackend[b]
            present(d) == d \notin shard.held[b]
            results == [from |-> b,
                        missing |-> IF e = "nil" THEN SelectSeq(digests, present) ELSE <<>>,
                        err |-> e]
        IN  /\ op.name = "FindMissing"
            /\ op.phase = "receiving"
            /\ op.goroutines[b] = "running"
            /\ e \in Outcomes(b)
            /\ Len(op.resultsChan) < Cardinality(DOMAIN op.digestsPerBackend)
            /\ op' = [op EXCEPT !.goroutines[b] = "returned",
                                !.resultsChan = Append(@, results)]
            /\ UNCHANGED <<kind, store, focus, rd, calls, shard>>

\* The join as it would be if the first error were kept.
recombine_FirstError(missing, err, results) ==
    IF results.err = "nil"
    THEN [missing |-> missing \o results.missing, err |-> err]
    ELSE [missing |-> missing, err |-> IF err = "nil" THEN results.err ELSE err]

\* The body of the loop that recombines the results.
recombine(missing, err, results) ==
    IF results.err = "nil"
    THEN [missing |-> missing \o results.missing, err |-> err]
    ELSE [missing |-> missing, err |-> results.err]

\* One round of the loop: a result is taken from the channel. After as many
\* rounds as there are groups the call returns the list and the error.
shardingFindMissingReceive ==
    /\ op.name = "FindMissing"
    /\ op.phase = "receiving"
    /\ op.resultsChan # <<>>
    /\ LET results == Head(op.resultsChan)
           next == recombine(op.missing, op.err, results)
           received == Append(op.received, results)
           last == Len(received) = Cardinality(DOMAIN op.digestsPerBackend)
       IN  op' = [op EXCEPT !.resultsChan = Tail(@),
                            !.received = received,
                            !.missing = next.missing,
                            !.err = next.err,
                            !.phase = IF last THEN "done" ELSE "receiving",
                            !.res = IF last THEN ErrOrOK(next.err) ELSE "nil"]
    /\ UNCHANGED <<kind, store, focus, rd, calls, shard>>

\* The back-end list is fixed at construction and has a live slot: with every
\* slot drained the selector would find no slot to stop at.
ShardInit ==
    /\ kind = "sharding"
    /\ store = EmptyStore
    /\ focus = DigestOf(<<>>)
    /\ rd = NoReader
    /\ calls = <<>>
    /\ op = ShardIdle
    /\ \E backends \in [Slots -> {"live", "nil"}], h \in HashInitializations,
          f \in DigestKeyFormats :
          /\ \E i \in Slots : backends[i] = "live"
          /\ shard = [backends |-> backends,
                      hashInitialization |-> h,
                      digestKeyFormat |-> f,
                      held |-> [i \in Slots |-> {}]]

ShardNext ==
    \/ shardingBlobAccessGet
    \/ shardingBlobAccessPut
    \/ shardingBlobAccessDelete
    \/ shardingFindMissingStart
    \/ callFindMissing
    \/ shardingFindMissingReceive

SpecShard == ShardInit /\ [][ShardNext]_vars

---------------------------------------------------------------------------
(* The loop of getBackend, one character of the key at a time.              *)

\* Digests of the default instance, of an instance with a plain name and of
\* one whose name is the letter e with an acute accent, U+00E9.
HashDigests ==
    {[instance |-> i, hash |-> DigestOf(b).hash, size |-> Len(b)] :
        i \in {<<>>, <<"i">>, <<"U+00E9">>}, b \in {<<>>, <<0>>, <<1>>}}

\* One round of the loop over the key, or its end, after which the hash is
\* handed to the selector.
getBackendRange ==
    /\ op.phase = "hashing"
    /\ IF op.rest = <<>>
       THEN op' = [op EXCEPT !.phase = "done"]
       ELSE op' = [op EXCEPT !.h = mulUint64(xorUint64(@, CharCode(Head(op.rest)))),
                             !.rest = Tail(@)]
    /\ UNCHANGED <<kind, store, focus, rd, calls, shard>>

\* getBackend was called with a digest: h is the configured constant and the
\* whole key is to come.
HashInit ==
    /\ kind = "sharding"
    /\ store = EmptyStore
    /\ focus \in HashDigests
    /\ rd = NoReader
    /\ calls = <<>>
    /\ \E h \in HashInitializations, f \in DigestKeyFormats :
          /\ shard = [backends |-> [i \in Slots |-> "live"],
                      hashInitialization |-> h,
                      digestKeyFormat |-> f,
                      held |-> [i \in Slots |-> {}]]
          /\ op = [name |-> "getBackend", phase |-> "hashing", res |-> "nil",
                   h |-> h, rest |-> GetKey(focus, f)]

HashNext == getBackendRange

SpecHash == HashInit /\ [][HashNext]_vars

---------------------------------------------------------------------------
(* One call of the sharding FindMissing, statement by statement: the caller *)
(* starts its goroutines one at a time and then takes the results; each     *)
(* goroutine calls its back end and then sends on the channel.              *)

\* The channel as it would be without a buffer.
capacity_Unbuffered(digestsPerBackend) == 0

\* make(chan findMissingResults, len(digestsPerBackend)).
capacity(digestsPerBackend) == Cardinality(DOMAIN digestsPerBackend)

\* The goroutines not yet started, those started, and those that hold a
\* result to send.
Unstarted == {b \in DOMAIN op.goroutines : op.goroutines[b] = "unstarted"}

\* The loop that starts the goroutines, one round per group, in the order the
\* map yields them.
fanOutGo ==
    /\ op.phase = "starting"
    /\ \E b \in Unstarted :
         op' = [op EXCEPT !.goroutines[b] = "calling",
                          !.phase = IF Unstarted = {b} THEN "receiving" ELSE "starting"]
    /\ UNCHANGED <<kind, store, focus, rd, calls, shard>>

\* A goroutine's callFindMissing returns: the back end answered or failed.
fanOutCallReturns ==
    \E b \in DOMAIN op.goroutines, e \in {"nil"} \cup Range(BackendErrors) :
        LET digests == op.digestsPerBackend[b]
            absent(d) == d \notin shard.held[b]
        IN  /\ op.goroutines[b] = "calling"
            /\ e \in Outcomes(b)
            /\ op' = [op EXCEPT
                        !.goroutines[b] = "sending",
                        !.pending[b] =
                            [from |-> b,
                             missing |-> IF e = "nil" THEN SelectSeq(digests, absent)
                                         ELSE <<>>,
                             err |-> e]]
            /\ UNCHANGED <<kind, store, focus, rd, calls, shard>>

\* A goroutine's send: it goes through when the channel has a free place,
\* and the goroutine ends.
fanOutSend ==
    \E b \in DOMAIN op.goroutines :
        /\ op.goroutines[b] = "sending"
        /\ Len(op.resultsChan) < op.capacity
        /\ op' = [op EXCEPT !.goroutines[b] = "exited",
                            !.resultsChan = Append(@, op.pending[b])]
        /\ UNCHANGED <<kind, store, focus, rd, calls, shard>>

\* One round of the loop that recombines the results, or, after as many rounds
\* as there are groups, the return.
fanOutReceive ==
    /\ op.phase = "receiving"
    /\ IF Len(op.received) = Cardinality(DOMAIN op.digestsPerBackend)
       THEN op' = [op EXCEPT !.phase = "returned", !.res = ErrOrOK(op.err)]
       ELSE /\ op.resultsChan # <<>>
            /\ LET results == Head(op.resultsChan)
                   next == recombine(op.missing, op.err, results)
               IN  op' = [op EXCEPT !.resultsChan = Tail(@),
                                    !.received = Append(@, results),
                                    !.missing = next.missing,
                                    !.err = next.err]
    /\ UNCHANGED <<kind, store, focus, rd, calls, shard>>

\* FindMissing was called with a batch, has grouped it and made the channel.
FanOutInit ==
    /\ kind = "sharding"
    /\ store = EmptyStore
    /\ focus = DigestOf(<<>>)
    /\ rd = NoReader
    /\ calls = <<>>
    /\ \E backends \in [Slots -> {"live", "nil"}], h \in HashInitializations,
          f \in DigestKeyFormats :
          /\ \E i \in Slots : backends[i] = "live"
          /\ shard = [backends |-> backends,
                      hashInitialization |-> h,
                      digestKeyFormat |-> f,
                      held |-> [i \in Slots |-> {}]]
    /\ \E batch \in ShardBatches :
         LET contacted == {getBackend(shard, batch[i]) : i \in 1..Len(batch)}
             groups == [b \in contacted |-> SubBatch(shard, batch, b)]
         IN  op = [name |-> "FindMissing",
                   phase |-> IF contacted = {} THEN "receiving" ELSE "starting",
                   res |-> "nil",
                   batch |-> batch,
                   digestsPerBackend |-> groups,
                   capacity |-> capacity(groups),
                   goroutines |-> [b \in contacted |-> "unstarted"],
                   pending |-> [b \in contacted |-> <<>>],
                   resultsChan |-> <<>>,
                   received |-> <<>>,
                   missing |-> <<>>,
                   err |-> "nil"]

FanOutNext == fanOutGo \/ fanOutCallReturns \/ fanOutSend \/ fanOutReceive

SpecFanOut == FanOutInit /\ [][FanOutNext]_vars

\* The scheduler runs every goroutine that can take a step: the caller's loops
\* and the sends. Nothing makes a back end answer.
SpecFanOutFair ==
    /\ SpecFanOut
    /\ WF_vars(fanOutGo)
    /\ WF_vars(fanOutSend)
    /\ WF_vars(fanOutReceive)

---------------------------------------------------------------------------
(* The ByteStream server: resource names, Read, Write, QueryWriteStatus. *)

\* A resource name is kept as the segments between its slashes, each a string
\* of characters; "blobs//1" has an empty second segment and "/blobs" an empty
\* first one. Joined by slashes the segments give back the string.
blobsKeyword == <<"b", "l", "o", "b", "s">>

uploadsKeyword == <<"u", "p", "l", "o", "a", "d", "s">>

\* The segments names are made of: the empty one, the two keywords, "Blobs"
\* (an instance name, a uuid, a hash, or a keyword in the wrong case) and "1".
Segments == {<<>>, blobsKeyword, uploadsKeyword, <<"B", "l", "o", "b", "s">>, <<"1">>}

ResourceNames == UNION {[1..n -> Segments] : n \in 0..MaxSegments}

\* strings.FieldsFunc with the separator '/': the maximal runs of other
\* characters, so empty segments leave no field.
FieldsFunc(name) ==
    LET nonEmpty(seg) == seg # <<>>
    IN  SelectSeq(name, nonEmpty)

DecimalDigits == <<"0", "1", "2", "3", "4", "5", "6", "7", "8", "9">>

RECURSIVE parseDigits(_, _)
parseDigits(s, acc) ==
    IF s = <<>> THEN acc
    ELSE IF Head(s) \notin Range(DecimalDigits) THEN -1
    ELSE parseDigits(Tail(s), acc * 10 + IndexOf(DecimalDigits, Head(s)) - 1)

\* strconv.ParseInt(s, 10, 64): an optional sign and at least one digit. The
\* names of the model stay far below 2^63.
ParseInt(s) ==
    LET signed == s # <<>> /\ Head(s) \in {"+", "-"}
        digits == IF signed THEN Tail(s) ELSE s
        v == parseDigits(digits, 0)
    IN  IF digits = <<>> \/ v < 0 THEN [err |-> "syntax", value |-> 0]
        ELSE [err |-> "nil", value |-> IF signed /\ Head(s) = "-" THEN -v ELSE v]

NoDigest == [ok |-> FALSE, instance |-> <<>>, hash |-> <<>>, size |-> 0]

parseResourceNameRead(resourceName) ==
    LET fields == FieldsFunc(resourceName)
        l == Len(fields)
    IN  IF (l # 3 /\ l # 4) \/ fields[l - 2] # blobsKeyword THEN NoDigest
        ELSE IF ParseInt(fields[l]).err # "nil" THEN NoDigest
        ELSE [ok |-> TRUE,
              instance |-> IF l = 4 THEN fields[1] ELSE <<>>,
              hash |-> fields[l - 1],
              size |-> ParseInt(fields[l]).value]

parseResourceNameWrite(resourceName) ==
    LET fields == FieldsFunc(resourceName)
        l == Len(fields)
    IN  IF (l # 5 /\ l # 6) \/ fields[l - 4] # uploadsKeyword
           \/ fields[l - 2] # blobsKeyword THEN NoDigest
        ELSE IF ParseInt(fields[l]).err # "nil" THEN NoDigest
        ELSE [ok |-> TRUE,
              instance |-> IF l = 6 THEN fields[1] ELSE <<>>,
              hash |-> fields[l - 1],
              size |-> ParseInt(fields[l]).value]

\* Size of the buffer the server reads a blob into, and of the chunks it sends.
readChunkSize == 1

RECURSIVE Chunked(_, _)
Chunked(data, size) ==
    IF data = <<>> THEN <<>>
    ELSE IF Len(data) <= size THEN <<data>>
    ELSE <<SubSeq(data, 1, size)>> \o Chunked(SubSeq(data, size + 1, Len(data)), size)

ByteStreamIdle ==
    [name |-> "None", phase |-> "idle", res |-> "nil", readOffset |-> 0, readLimit |-> 0,
     digest |-> NoDigest, sent |-> <<>>, prev |-> NoBlob]

ByteStreamDone(name, res) ==
    [ByteStreamIdle EXCEPT !.name = name, !.phase = "done", !.res = res]

\* writeOffset, data: the fields of byteStreamWriteServerReader; out: the bytes
\* the store has read from it; requests, total, violated: how many requests
\* were received on the stream, how many data bytes they carried, and whether
\* one of them after the first came with another write_offset than that.
NoWriteReader ==
    [writeOffset |-> 0, data |-> <<>>, out |-> <<>>, requests |-> 0, total |-> 0,
     violated |-> FALSE, closed |-> FALSE]

\* byteStreamServer.Read with the resource name parsed ahead of the check of
\* offset and limit.
byteStreamServerRead_ParseFirst ==
    \E readOffset \in {0, 1}, readLimit \in {0, 1} :
        LET digest == parseResourceNameRead(focus)
            asked == [ByteStreamIdle EXCEPT !.name = "Read", !.phase = "done",
                                            !.readOffset = readOffset,
                                            !.readLimit = readLimit]
        IN  /\ op.phase = "idle" \/ (op.name = "Write" /\ op.phase = "done")
            /\ rd' = NoWriteReader
            /\ IF ~digest.ok
               THEN /\ op' = [asked EXCEPT !.res = "InvalidArgument"]
                    /\ calls' = <<>>
               ELSE IF readOffset # 0 \/ readLimit # 0
               THEN /\ op' = [asked EXCEPT !.res = "Unimplemented"]
                    /\ calls' = <<>>
               ELSE \E env \in Envs, sendFails \in BOOLEAN :
                      LET g == LeafGetCall(kind, store, digest, env)
                          chunks == Chunked(g.data, readChunkSize)
                      IN  /\ calls' = <<"Get">>
                          /\ op' = [asked EXCEPT
                                      !.digest = digest,
                                      !.res = IF g.err # "nil" THEN g.err
                                              ELSE IF sendFails /\ chunks # <<>>
                                              THEN "Unavailable"
                                              ELSE "OK",
                                      !.sent = IF g.err # "nil" \/ sendFails
                                               THEN <<>> ELSE chunks]
            /\ UNCHANGED <<kind, store, focus, shard>>

\* byteStreamServer.Read: the check of offset and limit, the resource name,
\* Get on the store, and the loop that reads the blob in pieces of
\* readChunkSize and sends each piece that is not empty. It is called on a
\* server at rest or after a Write has returned.
byteStreamServerRead ==
    \E readOffset \in {0, 1}, readLimit \in {0, 1} :
        LET digest == parseResourceNameRead(focus)
            asked == [ByteStreamIdle EXCEPT !.name = "Read", !.phase = "done",
                                            !.readOffset = readOffset,
                                            !.readLimit = readLimit]
        IN  /\ op.phase = "idle" \/ (op.name = "Write" /\ op.phase = "done")
            /\ rd' = NoWriteReader
            /\ IF readOffset # 0 \/ readLimit # 0
               THEN /\ op' = [asked EXCEPT !.res = "Unimplemented"]
                    /\ calls' = <<>>
               ELSE IF ~digest.ok
               THEN /\ op' = [asked EXCEPT !.res = "InvalidArgument"]
                    /\ calls' = <<>>
               ELSE \E env \in Envs, sendFails \in BOOLEAN :
                      LET g == LeafGetCall(kind, store, digest, env)
                          chunks == Chunked(g.data, readChunkSize)
                      IN  /\ calls' = <<"Get">>
                          /\ op' = [asked EXCEPT
                                      !.digest = digest,
                                      !.res = IF g.err # "nil" THEN g.err
                                              ELSE IF sendFails /\ chunks # <<>>
                                              THEN "Unavailable"
                                              ELSE "OK",
                                      !.sent = IF g.err # "nil" \/ sendFails
                                               THEN <<>> ELSE chunks]
            /\ UNCHANGED <<kind, store, focus, shard>>

\* byteStreamServer.QueryWriteStatus.
byteStreamServerQueryWriteStatus ==
    /\ op.phase = "idle" \/ (op.name = "Write" /\ op.phase = "done")
    /\ op' = ByteStreamDone("QueryWriteStatus", "Unimplemented")
    /\ rd' = NoWriteReader
    /\ calls' = <<>>
    /\ UNCHANGED <<kind, store, focus, shard>>

\* What stream.Recv returns: a request, or the end of the client's requests
\* (io.EOF), or the error of a stream that broke.
WriteRequests == [err : {"nil"}, writeOffset : 0..MaxLen, data : NamedBlobs]

StreamEnds ==
    {[err |-> e, writeOffset |-> 0, data |-> <<>>] : e \in {"EOF", "Canceled"}}

\* What Recv returns during one Read of the reader: up to k requests, and
\* possibly the end of the stream after them.
Incoming(k) ==
    LET requests == UNION {[1..n -> WriteRequests] : n \in 0..k}
    IN  requests \cup {Append(s, e) : s \in requests, e \in StreamEnds}

\* byteStreamWriteServerReader.Read(p) with len(p) = cap, Recv returning the
\* elements of incoming one after the other: what is left of the last chunk is
\* copied; when p is full the call returns; else the next request is received,
\* its write_offset is compared with the bytes received so far, and its data
\* becomes the chunk to copy from. "blocked": the call waits for a Recv that
\* incoming does not provide.
RECURSIVE byteStreamWriteServerReaderRead(_, _, _)
byteStreamWriteServerReaderRead(r, cap, incoming) ==
    LET c == IF cap < Len(r.data) THEN cap ELSE Len(r.data)
        copied == SubSeq(r.data, 1, c)
        r1 == [r EXCEPT !.data = SubSeq(@, c + 1, Len(@))]
    IN  IF cap - c = 0 THEN [r |-> r1, bytes |-> copied, err |-> "nil", used |-> 0]
        ELSE IF incoming = <<>>
        THEN [r |-> r1, bytes |-> copied, err |-> "blocked", used |-> 0]
        ELSE IF Head(incoming).err # "nil"
        THEN [r |-> r1, bytes |-> copied, err |-> Head(incoming).err, used |-> 1]
        ELSE IF Head(incoming).writeOffset # r1.writeOffset
        THEN [r |-> r1, bytes |-> copied, err |-> "Unknown", used |-> 1]
        ELSE LET rest == byteStreamWriteServerReaderRead(
                             [r1 EXCEPT !.writeOffset = @ + Len(Head(incoming).data),
                                        !.data = Head(incoming).data],
                             cap - c, Tail(incoming))
             IN  [r |-> rest.r, bytes |-> copied \o rest.bytes, err |-> rest.err,
                  used |-> rest.used + 1]

\* The requests of incoming as the client sent them: the count, the data bytes,
\* and whether a write_offset differed from the data bytes sent before it.
RECURSIVE Sent(_, _)
Sent(w, incoming) ==
    IF incoming = <<>> \/ Head(incoming).err # "nil" THEN w
    ELSE Sent([w EXCEPT !.requests = @ + 1,
                        !.total = @ + Len(Head(incoming).data),
                        !.violated = @ \/ Head(incoming).writeOffset # w.total],
              Tail(incoming))

\* The buffer the store's Put reads into. ioutil.ReadAll of the Redis back end
\* has room for all there is; the HTTP transport reads through a LimitReader
\* of ContentLength bytes and, those read, looks for more; the gRPC relay
\* reads readChunkSize bytes at a time.
PutBuffer(k, size, read) ==
    IF k = "grpc" THEN readChunkSize
    ELSE IF k = "http" /\ read < size THEN size - read
    ELSE MaxLen * (MaxRequests + 1) + 1

\* What the store's Put does when the reader reports io.EOF: SET of all bytes;
\* the end of a PUT request whose body has the declared length (one of another
\* length is an error of the transport; a declared length of 0 is sent
\* chunked); the terminating chunk and CloseAndRecv.
PutAtEOF(k, st, d, out) ==
    IF k = "http" /\ d.size # 0 /\ Len(out) # d.size
    THEN [err |-> "Unknown", store |-> st]
    ELSE [err |-> "nil", store |-> LeafStored(k, st, d, out)]

\* byteStreamServer.Write up to the call of Put: the first request is received
\* and its resource name parsed; its data is the reader's first chunk and its
\* length the offset expected next. Its own write_offset is not looked at.
byteStreamServerWrite ==
    \E e \in WriteRequests \cup StreamEnds :
        LET digest == parseResourceNameWrite(focus)
        IN  /\ op.phase = "idle"
            /\ IF e.err # "nil"
               THEN /\ op' = ByteStreamDone("Write", IF e.err = "EOF" THEN "Unknown" ELSE e.err)
                    /\ rd' = NoWriteReader
                    /\ calls' = <<>>
               ELSE IF ~digest.ok
               THEN /\ op' = ByteStreamDone("Write", "InvalidArgument")
                    /\ rd' = NoWriteReader
                    /\ calls' = <<>>
               ELSE /\ op' = [ByteStreamIdle EXCEPT
                                !.name = "Write", !.phase = "writing", !.digest = digest,
                                !.prev = Lookup(store, LeafKey(kind, digest))]
                    /\ rd' = [NoWriteReader EXCEPT !.writeOffset = Len(e.data),
                                                   !.data = e.data,
                                                   !.requests = 1,
                                                   !.total = Len(e.data)]
                    /\ calls' = <<"Put">>
            /\ UNCHANGED <<kind, store, focus, shard>>

\* One Read of the store's Put on the reader of the Write, and what the store
\* does with its result: go on, store at io.EOF, or give up with the error.
byteStreamWritePutRead ==
    /\ op.name = "Write" /\ op.phase = "writing"
    /\ \E incoming \in Incoming(MaxRequests - rd.requests) :
         LET res == byteStreamWriteServerReaderRead(
                        [writeOffset |-> rd.writeOffset, data |-> rd.data],
                        PutBuffer(kind, op.digest.size, Len(rd.out)), incoming)
             out == rd.out \o res.bytes
             rd2 == [Sent(rd, incoming) EXCEPT !.writeOffset = res.r.writeOffset,
                                               !.data = res.r.data,
                                               !.out = out]
             end == PutAtEOF(kind, store, op.digest, out)
         IN  /\ res.err # "blocked"
             /\ res.used = Len(incoming)
             /\ IF res.err = "nil"
                THEN /\ rd' = rd2
                     /\ op' = op
                     /\ store' = store
                ELSE IF res.err = "EOF"
                THEN /\ rd' = [rd2 EXCEPT !.closed = TRUE]
                     /\ op' = [op EXCEPT !.phase = "done", !.res = ErrOrOK(end.err)]
                     /\ store' = end.store
                ELSE /\ rd' = [rd2 EXCEPT !.closed = TRUE]
                     /\ op' = [op EXCEPT !.phase = "done", !.res = res.err]
                     /\ store' = store
    /\ UNCHANGED <<kind, focus, calls, shard>>

\* The HTTP cache server during the Put of a Write: the request declares
\* ContentLength = digest.SizeBytes, so it is complete for the server once that
\* many body bytes have arrived, whatever the reader does afterwards.
remoteServerReceivedUpload ==
    /\ kind = "http"
    /\ op.name = "Write" /\ op.phase = "writing"
    /\ op.digest.size > 0 /\ Len(rd.out) >= op.digest.size
    /\ Lookup(store, remoteURL(op.digest)) # SubSeq(rd.out, 1, op.digest.size)
    /\ store' = remoteStored(store, op.digest, SubSeq(rd.out, 1, op.digest.size))
    /\ UNCHANGED <<kind, focus, op, rd, calls, shard>>

\* The digest a resource name stands for, read as either kind of name.
NamedDigests(name) ==
    {d \in {parseResourceNameRead(name), parseResourceNameWrite(name)} : d.ok}

\* The store behind the server holds nothing, or some bytes under the digest
\* the resource name stands for.
ByteStreamInit ==
    /\ kind \in LeafKinds
    /\ focus \in ResourceNames
    /\ store \in {EmptyStore} \cup
                 {Set(EmptyStore, LeafKey(kind, d), c) :
                      d \in NamedDigests(focus), c \in NamedBlobs}
    /\ op = ByteStreamIdle
    /\ rd = NoWriteReader
    /\ calls = <<>>
    /\ shard = ShardParked

ByteStreamNext ==
    \/ byteStreamServerRead
    \/ byteStreamServerQueryWriteStatus
    \/ byteStreamServerWrite
    \/ byteStreamWritePutRead
    \/ remoteServerReceivedUpload

SpecByteStream == ByteStreamInit /\ [][ByteStreamNext]_vars

---------------------------------------------------------------------------
(* The resource names the gRPC relay formats, as strings of characters,     *)
(* and what the ByteStream server's parsers make of them.                   *)

\* strings.FieldsFunc works on the string; the segments between its slashes,
\* empty ones included, are what ResourceNames lists.
RECURSIVE SplitSlash(_)
SplitSlash(str) ==
    IF \A i \in 1..Len(str) : str[i] # "/" THEN <<str>>
    ELSE LET i == CHOOSE j \in 1..Len(str) :
                      str[j] = "/" /\ \A k \in 1..(j - 1) : str[k] # "/"
         IN  <<SubSeq(str, 1, i - 1)>> \o SplitSlash(SubSeq(str, i + 1, Len(str)))

\* fmt.Sprintf with "/" between the %s and %d verbs.
RECURSIVE Sprintf(_)
Sprintf(parts) ==
    IF Len(parts) = 1 THEN parts[1]
    ELSE parts[1] \o <<"/">> \o Sprintf(Tail(parts))

\* contentAddressableStorageBlobAccess.Get: "blobs/%s/%d" or "%s/blobs/%s/%d".
casReadResourceName(d) ==
    IF d.instance = <<>>
    THEN Sprintf(<<blobsKeyword, hexEncodeToString(d.hash), FormatInt(d.size)>>)
    ELSE Sprintf(<<d.instance, blobsKeyword, hexEncodeToString(d.hash),
                   FormatInt(d.size)>>)

\* contentAddressableStorageBlobAccess.Put: "uploads/%s/blobs/%s/%d" or
\* "%s/uploads/%s/blobs/%s/%d", the first %s after uploads a random UUID.
casWriteResourceName(d, uuid) ==
    IF d.instance = <<>>
    THEN Sprintf(<<uploadsKeyword, uuid, blobsKeyword, hexEncodeToString(d.hash),
                   FormatInt(d.size)>>)
    ELSE Sprintf(<<d.instance, uploadsKeyword, uuid, blobsKeyword,
                   hexEncodeToString(d.hash), FormatInt(d.size)>>)

\* Instance names: none, one of one path segment, one of two.
FormatInstances == {<<>>, <<"m">>, <<"m", "/", "n">>}

\* Digests as the relay holds them: instance, raw hash, size.
FormatDigests ==
    [instance : FormatInstances, hash : {HashOf(b) : b \in NamedBlobs},
     size : {Len(b) : b \in NamedBlobs} \cup {-1}]

Uuids == {<<"4">>, <<"a", "f">>}

FormatIdle == [name |-> "None", phase |-> "idle", resourceName |-> <<>>,
               parsed |-> NoDigest]

\* The relay formats the name of a Get and the server's Read parses it.
formatAndParseRead ==
    /\ op.phase = "idle"
    /\ op' = [name |-> "Get", phase |-> "done",
              resourceName |-> casReadResourceName(focus),
              parsed |-> parseResourceNameRead(SplitSlash(casReadResourceName(focus)))]
    /\ UNCHANGED <<kind, store, focus, rd, calls, shard>>

\* The relay formats the name of a Put and the server's Write parses it.
formatAndParseWrite ==
    /\ op.phase = "idle"
    /\ \E uuid \in Uuids :
         op' = [name |-> "Put", phase |-> "done",
                resourceName |-> casWriteResourceName(focus, uuid),
                parsed |-> parseResourceNameWrite(
                               SplitSlash(casWriteResourceName(focus, uuid)))]
    /\ UNCHANGED <<kind, store, focus, rd, calls, shard>>

FormatInit ==
    /\ kind = "grpc"
    /\ focus \in FormatDigests
    /\ store = EmptyStore
    /\ op = FormatIdle
    /\ rd = NoReader
    /\ calls = <<>>
    /\ shard = ShardParked

FormatNext == formatAndParseRead \/ formatAndParseWrite

SpecFormat == FormatInit /\ [][FormatNext]_vars

---------------------------------------------------------------------------
(* The loop of byteStreamServer.Read over the stream Get returned, one      *)
(* iteration at a time. focus is the server's readChunkSize here.           *)

\* sent: the chunks that reached the client; eof: the store's stream has
\* reported io.EOF; cause: what ended the call ("eof", "stream", "send").
ReadLoopIdle == [name |-> "Read", phase |-> "reading", res |-> "nil", sent |-> <<>>,
                 eof |-> FALSE, cause |-> "none"]

\* if n > 0 { out.Send(...) } that sends whatever n is.
shouldSend_Always(n) == TRUE

\* if n > 0 { out.Send(...) }
shouldSend(n) == n > 0

\* One iteration: r.Read(readBuf) with len(readBuf) = readChunkSize; an error
\* other than io.EOF is returned at once, the bytes read along with it
\* dropped; a non-empty piece is sent, and a failing Send is returned; io.EOF
\* ends the call with nil.
byteStreamServerReadIteration ==
    /\ op.phase = "reading"
    /\ \E u \in UnderlyingReads(rd, TRUE), sendFails \in BOOLEAN :
         LET n == Len(u.chunk)
             rd2 == [rd EXCEPT !.pos = @ + n,
                               !.failed = u.err \notin {"nil", "EOF"}]
         IN  /\ n <= focus
             /\ rd' = rd2
             /\ IF u.err \notin {"nil", "EOF"}
                THEN op' = [op EXCEPT !.phase = "done", !.res = u.err, !.cause = "stream"]
                ELSE IF shouldSend(n) /\ sendFails
                THEN op' = [op EXCEPT !.phase = "done", !.res = "Canceled",
                                      !.cause = "send", !.eof = u.err = "EOF"]
                ELSE LET sent == IF shouldSend(n) THEN Append(op.sent, u.chunk)
                                 ELSE op.sent
                     IN  IF u.err = "EOF"
                         THEN op' = [op EXCEPT !.phase = "done", !.res = "OK",
                                               !.cause = "eof", !.eof = TRUE,
                                               !.sent = sent]
                         ELSE op' = [op EXCEPT !.sent = sent]
    /\ UNCHANGED <<kind, store, focus, calls, shard>>

\* Get has returned a stream over some bytes, or one made from an error, and
\* the server reads it with a buffer of 1..MaxLen bytes.
ReadLoopInit ==
    /\ kind = "any"
    /\ focus \in 1..MaxLen
    /\ store = EmptyStore
    /\ op = ReadLoopIdle
    /\ rd \in {[NoReader EXCEPT !.data = b] : b \in Blobs}
              \cup {[NoReader EXCEPT !.err = "NotFound"]}
    /\ calls = <<"Get">>
    /\ shard = ShardParked

ReadLoopNext == byteStreamServerReadIteration

SpecReadLoop == ReadLoopInit /\ [][ReadLoopNext]_vars

---------------------------------------------------------------------------
(* Put of the gRPC relay, one iteration of its loop at a time, and the      *)
(* ByteStream server's Write fed with the requests it sent. calls is the    *)
(* sequence of requests sent.                                               *)

\* readChunkSize: the relay's; writeOffset, resourceName: the variables of
\* Put; handed, serverRes: what the server's Write handed to its store and
\* how it ended.
RelayPutIdle ==
    [name |-> "Put", phase |-> "sending", res |-> "nil", readChunkSize |-> 1,
     writeOffset |-> 0, resourceName |-> <<>>, handed |-> <<>>, serverRes |-> "nil"]

WriteRequest(name, offset, finish, data) ==
    [resourceName |-> name, writeOffset |-> offset, finishWrite |-> finish,
     data |-> data]

\* One iteration of the loop of Put: r.Read(readBuf); without error the bytes
\* go out as a request that does not finish the write, the offset advances
\* and the resource name is cleared; at io.EOF the bytes go out in the
\* request that finishes the write, followed by CloseAndRecv; any other error
\* of the reader, or of a Send, ends Put.
relayPutIteration ==
    /\ op.phase = "sending"
    /\ \E u \in UnderlyingReads(rd, TRUE), sendFails \in BOOLEAN :
         LET n == Len(u.chunk)
             request == WriteRequest(op.resourceName, op.writeOffset,
                                     u.err = "EOF", u.chunk)
         IN  /\ n <= op.readChunkSize
             /\ rd' = [rd EXCEPT !.pos = @ + n,
                                 !.failed = u.err \notin {"nil", "EOF"},
                                 !.closed = u.err # "nil" \/ sendFails]
             /\ IF u.err \notin {"nil", "EOF"}
                THEN /\ op' = [op EXCEPT !.phase = "done", !.res = u.err]
                     /\ calls' = calls
                ELSE IF sendFails
                THEN /\ op' = [op EXCEPT !.phase = "done", !.res = "Unavailable"]
                     /\ calls' = calls
                ELSE IF u.err = "EOF"
                THEN /\ op' = [op EXCEPT !.phase = "closed"]
                     /\ calls' = Append(calls, request)
                ELSE /\ op' = [op EXCEPT !.writeOffset = @ + n, !.resourceName = <<>>]
                     /\ calls' = Append(calls, request)
    /\ UNCHANGED <<kind, store, focus, shard>>

\* The server's side of the stream once the relay has closed it: Write takes
\* the first request, parses its resource name and gives its store a reader
\* over the rest; the store reads the reader to its end. CloseAndRecv returns
\* what Write returned.
relayPutServerWrite ==
    /\ op.phase = "closed"
    /\ LET first == Head(calls)
           digest == parseResourceNameWrite(SplitSlash(first.resourceName))
           incoming == [i \in 1..(Len(calls) - 1) |->
                           [err |-> "nil", writeOffset |-> calls[i + 1].writeOffset,
                            data |-> calls[i + 1].data]]
                       \o <<[err |-> "EOF", writeOffset |-> 0, data |-> <<>>]>>
           read == byteStreamWriteServerReaderRead(
                       [writeOffset |-> Len(first.data), data |-> first.data],
                       Len(rd.data) + 1, incoming)
       IN  IF ~digest.ok
           THEN op' = [op EXCEPT !.phase = "done", !.res = "InvalidArgument",
                                 !.serverRes = "InvalidArgument"]
           ELSE op' = [op EXCEPT !.phase = "done", !.res = ErrOrOK(read.err),
                                 !.serverRes = ErrOrOK(read.err),
                                 !.handed = read.bytes]
    /\ UNCHANGED <<kind, store, focus, rd, calls, shard>>

\* Put was called with a digest and a reader over some bytes; the Write stream
\* is open and no request was sent yet.
RelayPutInit ==
    /\ kind = "grpc"
    /\ focus \in {d \in FormatDigests : d.hash = HashOf(<<>>) /\ d.size = 0}
    /\ store = EmptyStore
    /\ \E size \in 1..MaxLen, uuid \in Uuids :
         op = [RelayPutIdle EXCEPT !.readChunkSize = size,
                                   !.resourceName = casWriteResourceName(focus, uuid)]
    /\ rd \in {[NoReader EXCEPT !.data = b] : b \in Blobs}
    /\ calls = <<>>
    /\ shard = ShardParked

RelayPutNext == relayPutIteration \/ relayPutServerWrite

SpecRelayPut == RelayPutInit /\ [][RelayPutNext]_vars

---------------------------------------------------------------------------
(* The two readers over gRPC streams, read by a caller with buffers of any  *)
(* size: byteStreamWriteServerReader behind the server's Write, and         *)
(* byteStreamBlobReader behind the relay's Get. focus is the stream as the  *)
(* peer sends it, calls what of it was not received yet.                    *)

ChunkData == {<<>>, <<0>>, <<1, 0>>}

\* Streams of up to MaxRequests + 1 messages and their end: the peer closed
\* (io.EOF) or the stream broke. badAt, if not 0, is the place of a request
\* of the Write stream whose write_offset is not the data sent before it.
Streams ==
    {[chunks |-> c, end |-> e, badAt |-> b] :
        c \in UNION {[1..n -> ChunkData] : n \in 0..(MaxRequests + 1)},
        e \in {"EOF", "Canceled"}, b \in 0..(MaxRequests + 1)}

RECURSIVE Flatten(_)
Flatten(chunks) ==
    IF chunks = <<>> THEN <<>> ELSE Head(chunks) \o Flatten(Tail(chunks))

\* What Recv returns, call after call, on a stream.
Messages(stream) ==
    [i \in 1..Len(stream.chunks) |->
        [err |-> "nil",
         writeOffset |-> Len(Flatten(SubSeq(stream.chunks, 1, i - 1)))
                         + (IF i = stream.badAt THEN 1 ELSE 0),
         data |-> stream.chunks[i]]]
    \o <<[err |-> stream.end, writeOffset |-> 0, data |-> <<>>]>>

StreamReader == [writeOffset |-> 0, data |-> <<>>, partial |-> <<>>]

StreamIdle ==
    [name |-> "none", phase |-> "start", res |-> "nil", delivered |-> <<>>]

\* byteStreamBlobReader.Read with a buffer p of cap bytes: what is left of the
\* last chunk is copied, as far as it fits; with nothing left the next chunk
\* is received and copied, as far as it fits.
byteStreamBlobReaderRead(r, cap, incoming) ==
    IF Len(r.partial) > 0
    THEN LET n == IF cap < Len(r.partial) THEN cap ELSE Len(r.partial)
         IN  [r |-> [r EXCEPT !.partial = SubSeq(@, n + 1, Len(@))],
              bytes |-> SubSeq(r.partial, 1, n), err |-> "nil", used |-> 0]
    ELSE IF Head(incoming).err # "nil"
    THEN [r |-> r, bytes |-> <<>>, err |-> Head(incoming).err, used |-> 1]
    ELSE LET data == Head(incoming).data
             n == IF cap < Len(data) THEN cap ELSE Len(data)
         IN  [r |-> [r EXCEPT !.partial = SubSeq(data, n + 1, Len(data))],
              bytes |-> SubSeq(data, 1, n), err |-> "nil", used |-> 1]

\* The head of byteStreamServer.Write: the first request is received and the
\* reader is made over its data and the rest of the stream.
streamWrite ==
    /\ kind = "write"
    /\ op.phase = "start"
    /\ LET request == Head(calls)
       IN  IF request.err # "nil"
           THEN /\ op' = [op EXCEPT !.name = "Write", !.phase = "ended",
                                    !.res = request.err]
                /\ rd' = rd
           ELSE /\ op' = [op EXCEPT !.name = "Write", !.phase = "reading"]
                /\ rd' = [rd EXCEPT !.writeOffset = Len(request.data),
                                    !.data = request.data]
    /\ calls' = Tail(calls)
    /\ UNCHANGED <<kind, store, focus, shard>>

\* The tail of the relay's Get: the first chunk is received ahead of any Read.
\* An error other than io.EOF is returned; at io.EOF there is no chunk, and
\* the reader is made from the data of none.
streamGet ==
    /\ kind = "read"
    /\ op.phase = "start"
    /\ LET chunk == Head(calls)
       IN  IF chunk.err \notin {"nil", "EOF"}
           THEN /\ op' = [op EXCEPT !.name = "Get", !.phase = "ended",
                                    !.res = chunk.err]
                /\ rd' = rd
           ELSE IF chunk.err = "EOF"
           THEN /\ op' = [op EXCEPT !.name = "Get", !.phase = "ended",
                                    !.res = "panic"]
                /\ rd' = rd
           ELSE /\ op' = [op EXCEPT !.name = "Get", !.phase = "reading"]
                /\ rd' = [rd EXCEPT !.partial = chunk.data]
    /\ calls' = Tail(calls)
    /\ UNCHANGED <<kind, store, focus, shard>>

\* One Read by the caller, with a buffer of any size; the caller reads until
\* it is told of the end or of an error.
streamRead ==
    /\ op.phase = "reading"
    /\ \E cap \in 0..(MaxLen + 1) :
         LET read == IF kind = "write"
                     THEN byteStreamWriteServerReaderRead(rd, cap, calls)
                     ELSE byteStreamBlobReaderRead(rd, cap, calls)
         IN  /\ rd' = read.r
             /\ calls' = SubSeq(calls, read.used + 1, Len(calls))
             /\ op' = [op EXCEPT !.delivered = @ \o read.bytes,
                                 !.res = read.err,
                                 !.phase = IF read.err = "nil" THEN "reading"
                                           ELSE "ended"]
    /\ UNCHANGED <<kind, store, focus, shard>>

\* A stream was opened and nothing of it was received. Only the requests of a
\* Write carry an offset.
StreamInit ==
    /\ kind \in {"write", "read"}
    /\ store = EmptyStore
    /\ focus \in Streams
    /\ focus.badAt \in {0} \cup 2..Len(focus.chunks)
    /\ kind = "read" => focus.badAt = 0
    /\ rd = StreamReader
    /\ calls = Messages(focus)
    /\ op = StreamIdle
    /\ shard = ShardParked

StreamNext == streamWrite \/ streamGet \/ streamRead

SpecStreams == StreamInit /\ [][StreamNext]_vars

---------------------------------------------------------------------------
(* Startup of the worker process (main), then its worker goroutines.       *)
(* store is the cache directory, calls the files linked into build         *)
(* directories, rd the goroutines, focus the -concurrency flag, op main.   *)

\* The steps of main before the cache directory is cleared, and between the
\* construction of the storage readers and the loop that starts the workers.
\* Each of them ends the process with log.Fatal when it fails.
StepsBeforeClear == <<"browserURL", "blobAccess", "buildDirectory", "cacheDirectory">>

StepsBeforeWorkers == <<"schedulerConnection", "runnerConnection">>

\* A file of the cache directory: its name is a digest key; stale tells that
\* a previous run of the process left it there.
FileNames == 1..MaxFiles

StaleFiles == [name : FileNames, stale : {TRUE}]

MainStart ==
    [pc |-> "before", step |-> 1, aborted |-> FALSE, webServer |-> FALSE,
     cas |-> FALSE, hadStale |-> FALSE]

\* One of the steps that either succeed or end the process. The web server
\* is started after the first of them.
mainStep ==
    /\ ~op.aborted
    /\ op.pc \in {"before", "between"}
    /\ \E ok \in BOOLEAN :
         LET steps == IF op.pc = "before" THEN StepsBeforeClear ELSE StepsBeforeWorkers
             last == op.step = Len(steps)
         IN  op' = IF ~ok THEN [op EXCEPT !.aborted = TRUE]
                   ELSE [op EXCEPT !.step = IF last THEN 1 ELSE @ + 1,
                                   !.pc = IF ~last THEN @
                                          ELSE IF @ = "before" THEN "clear"
                                          ELSE "workers",
                                   !.webServer = TRUE]
    /\ UNCHANGED <<kind, store, focus, rd, calls, shard>>

\* The goroutine of the metrics web server: log.Fatal when ListenAndServe
\* returns, at any moment.
webServerFatal ==
    /\ ~op.aborted /\ op.webServer
    /\ op' = [op EXCEPT !.aborted = TRUE]
    /\ UNCHANGED <<kind, store, focus, rd, calls, shard>>

\* cacheDirectory.RemoveAllChildren() that reports success with the children
\* still there.
mainRemoveAllChildren_KeepsChildren ==
    /\ ~op.aborted /\ op.pc = "clear"
    /\ op' = [op EXCEPT !.pc = "cas"]
    /\ UNCHANGED <<kind, store, focus, rd, calls, shard>>

\* cacheDirectory.RemoveAllChildren(): on success the directory is empty; on
\* failure some of the children may be left and log.Fatal ends the process.
mainRemoveAllChildren ==
    /\ ~op.aborted /\ op.pc = "clear"
    /\ \E ok \in BOOLEAN, left \in SUBSET store :
         /\ ok => left = {}
         /\ store' = left
         /\ op' = IF ok THEN [op EXCEPT !.pc = "cas"] ELSE [op EXCEPT !.aborted = TRUE]
    /\ UNCHANGED <<kind, focus, rd, calls, shard>>

\* The hardlinking storage over the cache directory, and the action cache.
mainNewHardlinkingContentAddressableStorage ==
    /\ ~op.aborted /\ op.pc = "cas"
    /\ op' = [op EXCEPT !.pc = "between", !.cas = TRUE]
    /\ UNCHANGED <<kind, store, focus, rd, calls, shard>>

\* for i := 0; i < *concurrency; i++ { go func(i int) {...}(i) }, then select {}.
mainStartWorker ==
    /\ ~op.aborted /\ op.pc = "workers"
    /\ IF op.step <= focus
       THEN /\ rd' = [rd EXCEPT ![op.step] = "running"]
            /\ op' = [op EXCEPT !.step = @ + 1]
       ELSE /\ rd' = rd
            /\ op' = [op EXCEPT !.pc = "select"]
    /\ UNCHANGED <<kind, store, focus, calls, shard>>

\* A worker goroutine has the hardlinking storage put the file of a digest
\* into a build directory: a file of that name in the cache directory is
\* linked as it is; else the bytes are fetched, written to the cache
\* directory, and that file is linked.
workerLink ==
    /\ ~op.aborted
    /\ \E w \in DOMAIN rd, n \in FileNames :
         LET cached == {f \in store : f.name = n}
             fetched == [name |-> n, stale |-> FALSE]
         IN  /\ rd[w] = "running"
             /\ IF cached # {}
                THEN /\ calls' = calls \cup cached
                     /\ store' = store
                ELSE /\ calls' = calls \cup {fetched}
                     /\ store' = store \cup {fetched}
    /\ UNCHANGED <<kind, focus, op, rd, shard>>

\* The process starts with whatever a previous run left in the cache
\* directory, and with 1..MaxWorkers as -concurrency.
WorkerInit ==
    /\ kind = "worker"
    /\ focus \in 1..MaxWorkers
    /\ store \in SUBSET StaleFiles
    /\ op = [MainStart EXCEPT !.hadStale = store # {}]
    /\ rd = [w \in 1..focus |-> "none"]
    /\ calls = {}
    /\ shard = ShardParked

WorkerNext ==
    \/ mainStep
    \/ webServerFatal
    \/ mainRemoveAllChildren
    \/ mainNewHardlinkingContentAddressableStorage
    \/ mainStartWorker
    \/ workerLink

SpecWorker == WorkerInit /\ [][WorkerNext]_vars

---------------------------------------------------------------------------
(* The worker goroutines once started: the loop around subscribeAndExecute  *)
(* and subscribeAndExecute itself, one blocking call at a time. op maps     *)
(* each worker to its position.                                             *)

Workers == 1..MaxWorkers

\* What the scheduler may send as work: an instance name, and an action
\* digest or none. The second name has a percent sign that starts no escape.
WorkRequests ==
    [instanceName : {<<"m">>, <<"%", "m">>}, actionDigest : {"03", "nil"}]

\* url.Parse on the path made from a request: a percent sign must be followed
\* by two hex digits.
urlParseFails(path) ==
    \E i \in 1..Len(path) :
        /\ path[i] = "%"
        /\ \/ i + 2 > Len(path)
           \/ path[i + 1] \notin Range(HexDigits) \cup Range(UpperHexDigits)
           \/ path[i + 2] \notin Range(HexDigits) \cup Range(UpperHexDigits)

\* The path of the action's page; the hash and the size bring no percent sign.
actionPath(request) ==
    <<"/", "a", "c", "t", "i", "o", "n", "/">> \o request.instanceName \o <<"/">>

NoRequest == [instanceName |-> <<>>, actionDigest |-> "nil"]

\* pc: where the worker is. request: the request it received last. owes:
\* Send was not called for that request since.
WorkerAtStart == [pc |-> "GetWork", owes |-> FALSE, request |-> NoRequest]

\* schedulerClient.GetWork: the stream opens, or subscribeAndExecute returns
\* the error and the loop logs it and sleeps.
workerGetWork(w) ==
    /\ op[w].pc = "GetWork"
    /\ \E opened \in BOOLEAN :
         op' = [op EXCEPT ![w].pc = IF opened THEN "Recv" ELSE "Sleep"]
    /\ UNCHANGED <<kind, store, focus, rd, calls, shard>>

\* stream.Recv and the statements up to Execute: an error ends
\* subscribeAndExecute; a request's fields are read for the URL of its page,
\* which dereferences the action digest, and a URL that does not parse ends
\* subscribeAndExecute too. A panic ends the process and with it every worker.
workerRecv(w) ==
    /\ op[w].pc = "Recv"
    /\ \/ op' = [op EXCEPT ![w].pc = "Sleep"]
       \/ \E request \in WorkRequests :
            IF request.actionDigest = "nil"
            THEN op' = [v \in Workers |-> [op[v] EXCEPT !.pc = "panic"]]
            ELSE IF urlParseFails(actionPath(request))
            THEN op' = [op EXCEPT ![w] = [pc |-> "Sleep", owes |-> TRUE,
                                          request |-> request]]
            ELSE op' = [op EXCEPT ![w] = [pc |-> "Execute", owes |-> TRUE,
                                          request |-> request]]
    /\ UNCHANGED <<kind, store, focus, rd, calls, shard>>

\* buildExecutor.Execute returns a response; its error is dropped.
workerExecute(w) ==
    /\ op[w].pc = "Execute"
    /\ op' = [op EXCEPT ![w].pc = "Send"]
    /\ UNCHANGED <<kind, store, focus, rd, calls, shard>>

\* stream.Send of the response: the loop goes on to the next Recv, or
\* subscribeAndExecute returns the error.
workerSend(w) ==
    /\ op[w].pc = "Send"
    /\ \E sent \in BOOLEAN :
         op' = [op EXCEPT ![w].pc = IF sent THEN "Recv" ELSE "Sleep",
                          ![w].owes = FALSE]
    /\ UNCHANGED <<kind, store, focus, rd, calls, shard>>

\* The end of time.Sleep in the loop of the goroutine: the next round calls
\* subscribeAndExecute again.
workerSleep(w) ==
    /\ op[w].pc = "Sleep"
    /\ op' = [op EXCEPT ![w].pc = "GetWork"]
    /\ UNCHANGED <<kind, store, focus, rd, calls, shard>>

\* Every worker goroutine was started and is about to subscribe.
LoopInit ==
    /\ kind = "worker"
    /\ store = EmptyStore
    /\ focus = DigestOf(<<>>)
    /\ rd = NoReader
    /\ calls = <<>>
    /\ op = [w \in Workers |-> WorkerAtStart]
    /\ shard = ShardParked

LoopNext ==
    \E w \in Workers :
        \/ workerGetWork(w)
        \/ workerRecv(w)
        \/ workerExecute(w)
        \/ workerSend(w)
        \/ workerSleep(w)

SpecLoop == LoopInit /\ [][LoopNext]_vars

\* Calls that return of themselves do return: GetWork, Execute, Send and the
\* sleep. Recv waits for the scheduler, which may have no work.
SpecLoopFair ==
    /\ SpecLoop
    /\ \A w \in Workers :
         /\ WF_vars(workerGetWork(w))
         /\ WF_vars(workerExecute(w))
         /\ WF_vars(workerSend(w))
         /\ WF_vars(workerSleep(w))

---------------------------------------------------------------------------
(* Claims about the integrity adapter, checked under SpecMerkle. *)


\* The digest invariants of the data model, stated without the code: a hash of
\* a recognized length, of characters 0-9 and a-f only, and a size >= 0.
LowerHex == {"0", "1", "2", "3", "4", "5", "6", "7",
             "8", "9", "a", "b", "c", "d", "e", "f"}

WellFormed(d) ==
    /\ Len(d.hash) \in RecognizedHashLengths
    /\ Range(d.hash) \subseteq LowerHex
    /\ d.size >= 0

\* A Put whose reader was read without an error of the reader's own.
PutDone == op.name = "Put" /\ op.phase = "done" /\ ~rd.failed

\* A Get whose verifying reader found the bytes of the wrapped store to deviate.
GetFoundCorruption ==
    op.name = "Get" /\ op.phase = "done" /\ rd.invalidations > 0

\* C1: Put(D, B) through the integrity adapter succeeds iff len(B) = D.size and
\* hash(B) = D.hash; when the reader yields more bytes, fewer bytes or bytes of
\* another hash, Put fails with InvalidArgument and the leaf holds what it held
\* before the Put.
C1_PutSucceedsIffMatches ==
    PutDone =>
        /\ op.res = "OK" <=> Matches(focus, rd.data)
        /\ ~Matches(focus, rd.data) =>
               /\ op.res = "InvalidArgument"
               /\ Lookup(store, LeafKey(kind, focus)) = op.prev

C4_InvalidatorAndCodePerSide ==
    (op.phase = "done" /\ rd.invalidations > 0) =>
        /\ op.name = "Get" =>
               (calls = <<"Get", "Delete">> /\ op.res = "Internal" /\ Len(op.log) = 1)
        /\ op.name = "Put" =>
               (calls = <<"Put">> /\ op.res = "InvalidArgument" /\ op.log = <<>>)

\* C4 witness: a Get has found a mismatch, the Delete it invoked failed, and
\* the stream failed with Internal all the same.
C4_Witness ==
    /\ GetFoundCorruption /\ op.res = "Internal"
    /\ op.log = <<"Failed to delete corrupted blob">>

\* C5: a digest that is not well formed makes Get, Put, Delete and FindMissing
\* fail with InvalidArgument without a call reaching the wrapped store; Put
\* closes its reader; FindMissing fails as a whole, with no partial list, when
\* any one digest of the batch is not well formed.
C5_MalformedDigestRefused ==
    /\ (op.phase = "done" /\ op.name \in {"Get", "Put", "Delete"} /\ ~WellFormed(focus))
           => (op.res = "InvalidArgument" /\ calls = <<>>
                   /\ (op.name = "Put" => Lookup(store, LeafKey(kind, focus)) = op.prev))
    /\ (op.phase = "done" /\ op.name = "Put" /\ ~WellFormed(focus)) => rd.closed
    /\ (op.name = "Get" /\ op.phase = "reading" /\ ~WellFormed(focus))
           => (calls = <<>> /\ rd.err = "InvalidArgument" /\ rd.data = <<>>)
    /\ (op.name = "FindMissing" /\ \E i \in 1..Len(op.batch) : ~WellFormed(op.batch[i]))
           => (op.res = "InvalidArgument" /\ calls = <<>> /\ op.missing = <<>>)

\* C5 witness: a FindMissing of a well formed digest and one with an uppercase
\* hash has failed as a whole.
C5_Witness ==
    /\ op.name = "FindMissing" /\ op.res = "InvalidArgument"
    /\ Len(op.batch) = 2
    /\ WellFormed(op.batch[1]) /\ ~WellFormed(op.batch[2])
    /\ op.batch[2].size >= 0 /\ Len(op.batch[2].hash) \in RecognizedHashLengths
    /\ hexDecodeString(op.batch[2].hash) >= 0

\* C8: while a Put through the integrity adapter runs, the leaf's content
\* changes only in the step in which the verifying reader delivers io.EOF for
\* bytes of matching size and hash; and a Put whose verification failed leaves
\* the leaf holding what it held before.
C8_StoredOnlyAfterVerification ==
    /\ [][(op.name = "Put" /\ op.phase = "reading" /\ store' # store)
             => (op'.phase = "done" /\ op'.res = "OK" /\ Matches(focus, rd'.out))]_vars
    /\ [](op.name = "Put" /\ op.phase = "done" /\ rd.invalidations > 0
             => Lookup(store, LeafKey(kind, focus)) = op.prev)

---------------------------------------------------------------------------
(* Claims about the leaf back ends, checked under SpecLeaf. *)

\* C6: whenever Put returns success on a back end, the blob is stored: a Get of
\* the digest issued next yields exactly the bytes written, and a FindMissing
\* issued next does not report the digest.
C6_PutSuccessMeansStored ==
    (op.name = "Put" /\ op.phase = "done" /\ op.res = "OK") =>
        /\ LeafGet(kind, store, focus) = [err |-> "nil", data |-> rd.data]
        /\ LeafFindMissing(kind, store, <<focus>>).missing = <<>>

\* C7: every Put closes the reader it was given on every exit path: success,
\* key or request construction failure, back-end failure, a failing reader and
\* a context that is already cancelled.
C7_PutClosesReader ==
    (op.name = "Put" /\ op.phase = "done") => rd.closed

---------------------------------------------------------------------------
(* Claims about the sharding adapter, checked under SpecShard. *)

\* The slots a call sends the digest d to: the back end of a Get, Put or
\* Delete of d, and the groups of a FindMissing that d was put in.
SentTo(o, d) ==
    IF o.name = "FindMissing"
    THEN {b \in DOMAIN o.digestsPerBackend : d \in Range(o.digestsPerBackend[b])}
    ELSE IF o.name \in {"Get", "Put", "Delete"} /\ o.digest = d THEN {o.backend}
    ELSE {}

\* C9: with the back-end list fixed, Get, Put, Delete and the grouping of
\* FindMissing send a digest to the same back end on every call, and never to
\* a drained slot: the list does not change, a call sends a digest to one slot
\* only, that slot is live, and it is the slot the call before sent it to.
C9_SameLiveBackendOnEveryCall ==
    [][/\ shard'.backends = shard.backends
       /\ \A d \in ShardDigests :
             /\ Cardinality(SentTo(op', d)) <= 1
             /\ \A b \in SentTo(op', d) : shard'.backends[b] = "live"
             /\ \A a \in SentTo(op, d), b \in SentTo(op', d) : a = b
      ]_vars

\* A FindMissing has put a digest whose first candidate is drained, and which
\* an earlier Put has stored, in the group of the live slot the Put used.
C9_Witness ==
    /\ op.name = "FindMissing"
    /\ op.phase = "done"
    /\ \E d \in Range(op.batch) :
          /\ shard.backends[getBackend_FirstCandidate(shard, d)] = "nil"
          /\ SentTo(op, d) = {getBackend(shard, d)}
          /\ d \in shard.held[getBackend(shard, d)]

ErrorsOf(received) ==
    LET failed(r) == r.err # "nil"
    IN  SelectSeq(received, failed)

RECURSIVE MissingOfSucceeded(_)
MissingOfSucceeded(received) ==
    IF received = <<>> THEN <<>>
    ELSE (IF Head(received).err = "nil" THEN Head(received).missing ELSE <<>>)
             \o MissingOfSucceeded(Tail(received))

\* C10: FindMissing of the sharding adapter returns only when every back end it
\* contacted has answered, also when one of them failed; its list is made of
\* the lists of the back ends that succeeded, which are the digests of their
\* groups they do not hold; its error is that of the failing back end whose
\* answer was received last, and nil only when no back end failed.
C10_JoinOfAllAnswers ==
    (op.name = "FindMissing" /\ op.phase = "done") =>
        LET contacted == {getBackend(shard, op.batch[i]) : i \in 1..Len(op.batch)}
            errors == ErrorsOf(op.received)
            succeeded == {r.from : r \in {x \in Range(op.received) : x.err = "nil"}}
        IN  /\ {r.from : r \in Range(op.received)} = contacted
            /\ Len(op.received) = Cardinality(contacted)
            /\ \A b \in contacted : op.goroutines[b] = "returned"
            /\ op.missing = MissingOfSucceeded(op.received)
            /\ Range(op.missing) =
                   {d \in Range(op.batch) :
                       /\ getBackend(shard, d) \in succeeded
                       /\ d \notin shard.held[getBackend(shard, d)]}
            /\ op.err = IF errors = <<>> THEN "nil" ELSE errors[Len(errors)].err
            /\ (op.res = "OK") = (errors = <<>>)

\* A back end failed and its answer was received first; another one succeeded
\* afterwards and reported a digest missing; the call has returned both.
C10_Witness ==
    /\ op.name = "FindMissing"
    /\ op.phase = "done"
    /\ Len(op.received) >= 2
    /\ op.received[1].err # "nil"
    /\ op.err = op.received[1].err
    /\ op.missing # <<>>

---------------------------------------------------------------------------
(* Further claims about the leaf back ends and the sharding adapter. *)

C11_ShardingFindMissingSoundAndComplete ==
    (kind = "sharding" /\ op.name = "FindMissing" /\ op.phase = "done") =>
        /\ Range(op.missing) \subseteq Range(op.batch)
        /\ \A x \in Range(op.missing) : x \notin shard.held[getBackend(shard, x)]
        /\ op.res = "OK" =>
               \A d \in Range(op.batch) :
                   d \notin shard.held[getBackend(shard, d)] => d \in Range(op.missing)


---------------------------------------------------------------------------
(* Claims about the ByteStream server, checked under SpecByteStream. *)

\* A name of n segments, none of them empty, with the keywords at their places
\* counted from the tail and a decimal integer as the last segment.
AllSegmentsNonEmpty(name) == \A i \in 1..Len(name) : name[i] # <<>>

DocumentedReadForm(name) ==
    /\ Len(name) \in {3, 4}
    /\ AllSegmentsNonEmpty(name)
    /\ name[Len(name) - 2] = blobsKeyword
    /\ ParseInt(name[Len(name)]).err = "nil"

DocumentedWriteForm(name) ==
    /\ Len(name) \in {5, 6}
    /\ AllSegmentsNonEmpty(name)
    /\ name[Len(name) - 4] = uploadsKeyword
    /\ name[Len(name) - 2] = blobsKeyword
    /\ ParseInt(name[Len(name)]).err = "nil"

\* A Read that got past the check of offset and limit; a Write whose first
\* request was received.
ReadNameParsed ==
    op.name = "Read" /\ op.phase = "done" /\ op.readOffset = 0 /\ op.readLimit = 0

WriteNameParsed ==
    op.name = "Write" /\ (calls # <<>> \/ op.res = "InvalidArgument")

\* C12: a Read reaches the store iff its resource name has the documented read
\* form, a Write iff its name has the documented write form; with every other
\* name the call fails with InvalidArgument and the store is not accessed.
C12_AcceptsExactlyDocumentedForms ==
    /\ ReadNameParsed =>
         IF DocumentedReadForm(focus) THEN calls = <<"Get">>
         ELSE op.res = "InvalidArgument" /\ calls = <<>>
    /\ WriteNameParsed =>
         IF DocumentedWriteForm(focus) THEN calls = <<"Put">>
         ELSE op.res = "InvalidArgument" /\ calls = <<>>

\* The part of C12 that holds: a name is accepted iff the parser yields a
\* digest for it, and a name of the documented form always is.
C12_DocumentedFormsAccepted ==
    /\ ReadNameParsed =>
         /\ DocumentedReadForm(focus) => calls = <<"Get">>
         /\ calls = <<>> => op.res = "InvalidArgument"
    /\ WriteNameParsed =>
         /\ DocumentedWriteForm(focus) => calls = <<"Put">>
         /\ calls = <<>> => op.res = "InvalidArgument"

\* What the store holds under the digest of the running Write.
WrittenBlob == Lookup(store, LeafKey(kind, op.digest))

\* C13: once a request after the first has come with a write_offset other than
\* the number of data bytes of the requests before it, the Write has failed
\* and the store holds under the digest what it held before the Write.
C13_OffsetViolationFailsWrite ==
    (op.name = "Write" /\ rd.violated) =>
        /\ op.phase = "done"
        /\ op.res # "OK"
        /\ WrittenBlob = op.prev

\* The part of C13 that is the server's own: the reader compares every
\* request after the first with the bytes received before it, and the Write
\* fails at the first that differs.
C13_OffsetViolationEndsReader ==
    (op.name = "Write" /\ rd.violated) =>
        /\ op.phase = "done"
        /\ op.res = "Unknown"
        /\ kind # "http" => WrittenBlob = op.prev

---------------------------------------------------------------------------
(* Further claims about the leaf back ends, checked under SpecLeaf. *)

EmptyBlobDigest == DigestOf(<<>>)

\* C14: with no failure of the call, Put of the empty blob under its digest
\* succeeds and the leaf holds it; and Get of that digest from a leaf that
\* holds the empty blob succeeds with a stream of no bytes.
C14_EmptyBlobRoundTrip ==
    (focus = EmptyBlobDigest /\ op.phase = "done" /\ op.env = NoFault) =>
        /\ (op.name = "Put" /\ rd.data = <<>>) =>
               op.res = "OK" /\ Lookup(store, LeafKey(kind, focus)) = <<>>
        /\ (op.name = "Get" /\ Lookup(store, LeafKey(kind, focus)) = <<>>) =>
               op.res = "OK" /\ rd.out = <<>>

\* The same for the leaves that read the blob in one piece.
C14_EmptyBlobRoundTripRedisHTTP == kind # "grpc" => C14_EmptyBlobRoundTrip

\* A call of the HTTP leaf whose request was answered, with a status other than
\* 200 and 404, or with one of these two.
HTTPAnswered(name) ==
    kind = "http" /\ op.phase = "done" /\ op.name = name /\ ~op.env.cancelled

\* C15: on the HTTP leaf an answer with another status than 200 and 404 makes
\* Get, Put and a FindMissing that sent a request fail with Unknown, and
\* FindMissing returns no list; 404 is NotFound for Get and "missing" for
\* FindMissing, 200 is a present blob.
C15_OtherStatusIsUnknown ==
    /\ \A name \in {"Get", "Put", "FindMissing"} :
         (HTTPAnswered(name) /\ op.env.fault = "status"
              /\ (name = "FindMissing" => op.batch # <<>>)) =>
             op.res = "Unknown" /\ op.missing = <<>>
    /\ (HTTPAnswered("Get") /\ op.env = NoFault) =>
         IF Lookup(store, remoteURL(focus)) = NoBlob THEN op.res = "NotFound"
         ELSE op.res = "OK" /\ rd.out = Lookup(store, remoteURL(focus))
    /\ (HTTPAnswered("FindMissing") /\ op.env = NoFault) =>
         op.res = "OK" /\ op.missing = MissingOf("http", store, op.batch)

\* The same without Put.
C15_OtherStatusIsUnknownGetFindMissing ==
    (op.name # "Put") => C15_OtherStatusIsUnknown


---------------------------------------------------------------------------
(* Further claims about the ByteStream server, checked under SpecByteStream. *)

PartialRead ==
    op.name = "Read" /\ op.phase = "done" /\ (op.readOffset # 0 \/ op.readLimit # 0)

\* C16: a Read with a non-zero read_offset or read_limit ends with
\* Unimplemented, whatever the resource name, without the name having been
\* turned into a digest and without a call of the store; QueryWriteStatus ends
\* with Unimplemented without a call of the store; and the step of either
\* leaves every stored blob as it was.
C16_PartialReadAndQueryUnimplemented ==
    /\ [](PartialRead =>
            op.res = "Unimplemented" /\ op.digest = NoDigest /\ calls = <<>>)
    /\ [](op.name = "QueryWriteStatus" =>
            op.res = "Unimplemented" /\ calls = <<>>)
    /\ [][(op'.name = "QueryWriteStatus"
              \/ (op'.name = "Read" /\ (op'.readOffset # 0 \/ op'.readLimit # 0)))
          => store' = store]_vars

\* A Read with a non-zero offset and a name the parser refuses has ended with
\* Unimplemented.
C16_Witness ==
    /\ PartialRead
    /\ op.readOffset # 0
    /\ ~parseResourceNameRead(focus).ok
    /\ op.res = "Unimplemented"


---------------------------------------------------------------------------
(* Claims about the gRPC relay, checked under SpecRelay. *)

RelayFindMissingDone ==
    kind = "grpc" /\ op.name = "FindMissing" /\ op.phase = "done"

MixedInstances(instances) ==
    \E i, j \in 1..Len(instances) : instances[i] # instances[j]

\* C17: FindMissing of the gRPC relay with digests of more than one instance
\* ends with InvalidArgument and has called FindMissingBlobs not at all; with
\* an empty batch it ends with an empty result and no call either; in every
\* other case it has called FindMissingBlobs exactly once, with the instance
\* name the digests share and all digests of the batch.
C17_OneRPCPerUniformBatch ==
    RelayFindMissingDone =>
        IF op.batch = <<>>
        THEN op.res = "OK" /\ op.missing = <<>> /\ op.log = <<>>
        ELSE IF MixedInstances(op.instances)
        THEN op.res = "InvalidArgument" /\ op.log = <<>>
        ELSE /\ Len(op.log) = 1
             /\ op.log[1].digests = op.batch
             /\ \A i \in 1..Len(op.batch) : op.instances[i] = op.log[1].instance

\* A batch of two digests of different instances was refused, the second
\* digest being one the peer lacks.
C17_Witness ==
    /\ RelayFindMissingDone
    /\ Len(op.batch) = 2
    /\ op.instances[1] # op.instances[2]
    /\ op.res = "InvalidArgument"
    /\ Lookup(store, LeafKey(kind, op.batch[2])) = NoBlob


---------------------------------------------------------------------------
(* Claims about cancelled contexts on the leaf back ends, under SpecLeaf. *)

CancelledCall(o) ==
    o.phase = "done" /\ o.name \in {"Get", "Put", "FindMissing"} /\ o.env.cancelled

\* C18: a Get, Put or FindMissing called with a cancelled context ends with
\* the cancellation error, and its step leaves the store as it was.
C18_CancelledCallFails ==
    /\ [](CancelledCall(op) => op.res = "Canceled" /\ op.missing = <<>>)
    /\ [][CancelledCall(op') => store' = store]_vars

\* The calls of C18 that do end with the cancellation error: all but a
\* FindMissing of an empty batch on the HTTP and gRPC leaves, which sends
\* nothing and succeeds, and a Put of the HTTP leaf whose request could not be
\* built, which ends with that error.
C18_CancelledCallFailsWhereChecked ==
    /\ [](( /\ CancelledCall(op)
            /\ ~(op.name = "FindMissing" /\ op.batch = <<>> /\ kind # "redis")
            /\ ~(op.name = "Put" /\ kind = "http" /\ op.env.fault = "request"))
          => op.res = "Canceled" /\ op.missing = <<>>)
    /\ [][CancelledCall(op') => store' = store]_vars


---------------------------------------------------------------------------
(* Claims about the startup of the worker process, checked under SpecWorker. *)

NoStaleFile == \A f \in store : ~f.stale

\* C19: whenever the hardlinking storage exists or a worker goroutine runs,
\* the cache directory holds no file of a previous run (a failure to clear it
\* has ended the process before), and no file of a previous run is among the
\* files linked into build directories.
C19_CacheClearedBeforeUse ==
    /\ (op.cas \/ \E w \in DOMAIN rd : rd[w] = "running") =>
           NoStaleFile /\ op.pc \notin {"before", "clear"}
    /\ (op.aborted /\ ~NoStaleFile) => ~op.cas
    /\ \A f \in calls : ~f.stale

\* The process found files of a previous run, and a worker has linked a file
\* of a name that one of them had.
C19_Witness ==
    /\ op.hadStale
    /\ op.cas
    /\ \E w \in DOMAIN rd : rd[w] = "running"
    /\ calls # {}


---------------------------------------------------------------------------
(* Claims about the verifying reader, checked under SpecReader. *)

\* C20: every Read after the one at which the verifying reader reported a
\* deviation of size or checksum returns an error and no data, and the
\* invalidator has run at most once on the stream.
C20_FailureIsTerminal ==
    /\ (op.failedAt > 0 /\ op.reads > op.failedAt) =>
           op.res \notin {"nil", "EOF"} /\ op.n = 0
    /\ rd.invalidations <= 1

\* The part of C20 that holds: a Read that reports a deviation hands no byte
\* to the caller, and Reads after it return an error or no data.
C20_FailedReadDeliversNothing ==
    /\ (op.failedAt > 0 /\ op.reads = op.failedAt) => op.n = 0 /\ op.res = "Internal"
    /\ rd.invalidations <= op.reads


---------------------------------------------------------------------------
(* Claims about a Get racing with a Put, checked under SpecRace. *)

\* C21: once the concurrent Put of the right bytes has succeeded, the wrapped
\* store holds those bytes under the digest, so a Get finds them and
\* FindMissing does not report the digest; the Delete of the Get that found
\* the earlier bytes corrupt does not take them away.
C21_DeleteSparesValidContent ==
    op.put = "done" =>
        /\ Lookup(store, LeafKey(kind, focus)) = ValidBlob(focus)
        /\ MissingOf(kind, store, <<focus>>) = <<>>

\* The same on the leaves whose Delete is Unimplemented.
C21_DeleteSparesValidContentHTTPgRPC ==
    kind # "redis" => C21_DeleteSparesValidContent


---------------------------------------------------------------------------
(* Claims about the loop of ByteStream Read, checked under SpecReadLoop. *)

RECURSIVE Concatenation(_)
Concatenation(chunks) ==
    IF chunks = <<>> THEN <<>> ELSE Head(chunks) \o Concatenation(Tail(chunks))

IsPrefix(s, t) == Len(s) <= Len(t) /\ s = SubSeq(t, 1, Len(s))

\* C22: the chunks sent are non-empty and of at most readChunkSize bytes, and
\* put together they are the bytes read from the store's stream, in order;
\* the call returns OK only when the stream has reported io.EOF, and then all
\* its bytes were sent; when the stream fails the call returns the stream's
\* error and when a Send fails the error of the Send, the client keeping the
\* chunks sent before.
C22_ChunksAreTheStream ==
    /\ \A i \in 1..Len(op.sent) : op.sent[i] # <<>> /\ Len(op.sent[i]) <= focus
    /\ IsPrefix(Concatenation(op.sent), rd.data)
    /\ Len(Concatenation(op.sent)) <= rd.pos
    /\ op.phase = "reading" => Concatenation(op.sent) = SubSeq(rd.data, 1, rd.pos)
    /\ op.res = "OK" => op.eof /\ Concatenation(op.sent) = rd.data
    /\ op.phase = "done" =>
         /\ op.cause = "stream" => op.res \in {"Unavailable", "NotFound"}
         /\ op.cause = "send" => op.res = "Canceled"
         /\ op.cause = "eof" <=> op.res = "OK"

\* The stream broke off after a chunk of two bytes had been sent.
C22_Witness ==
    /\ op.phase = "done" /\ op.cause = "stream"
    /\ Len(op.sent) >= 1 /\ Len(op.sent[1]) = 2


---------------------------------------------------------------------------
(* Claims about the relay's resource names, checked under SpecFormat. *)

ParsedBack ==
    /\ op.parsed.ok
    /\ op.parsed.instance = focus.instance
    /\ op.parsed.hash = hexEncodeToString(focus.hash)
    /\ op.parsed.size = focus.size

\* C24: the name the relay formats for the Get or the Put of a digest is
\* parsed by the server back to the digest's instance, hash and size.
C24_FormatThenParseIsIdentity == op.phase = "done" => ParsedBack

\* The same for instance names without a slash.
C24_FormatThenParseOneSegment ==
    (op.phase = "done" /\ \A i \in 1..Len(focus.instance) : focus.instance[i] # "/")
        => ParsedBack


---------------------------------------------------------------------------
(* Claims about the requests of the relay's Put, checked under SpecRelayPut. *)

DataOf(requests) == Concatenation([i \in 1..Len(requests) |-> requests[i].data])

\* The requests sent so far follow the Write protocol.
RequestsConform ==
    /\ \A i \in 1..Len(calls) :
         /\ calls[i].resourceName # <<>> <=> i = 1
         /\ calls[i].writeOffset = Len(DataOf(SubSeq(calls, 1, i - 1)))
         /\ calls[i].finishWrite => i = Len(calls)
    /\ op.phase = "sending" =>
         /\ \A i \in 1..Len(calls) : ~calls[i].finishWrite
         /\ DataOf(calls) = SubSeq(rd.data, 1, rd.pos)
    /\ (op.phase = "closed" \/ op.serverRes # "nil") =>
         /\ calls # <<>> /\ calls[Len(calls)].finishWrite
         /\ DataOf(calls) = rd.data

\* C23: the requests of the relay's Put carry the resource name in the first
\* request only, each the write_offset that is the data sent before it, the
\* finish_write flag in the last request alone, and together the reader's
\* bytes; and the server's Write, fed with them, hands exactly these bytes to
\* its store and succeeds.
C23_RelayPutConformsToWrite ==
    /\ RequestsConform
    /\ op.serverRes # "nil" => op.serverRes = "OK" /\ op.handed = rd.data

\* The same for digests whose instance name the server's parser accepts.
C23_RelayPutConformsOneSegment ==
    (\A i \in 1..Len(focus.instance) : focus.instance[i] # "/")
        => C23_RelayPutConformsToWrite


---------------------------------------------------------------------------
(* Claims about the fan-out of the sharding FindMissing, under SpecShard.   *)

RECURSIVE SumOfLengths(_, _)
SumOfLengths(groups, slots) ==
    IF slots = {} THEN 0
    ELSE LET b == CHOOSE x \in slots : TRUE
         IN  Len(groups[b]) + SumOfLengths(groups, slots \ {b})

\* The results back end b has produced so far, received or still in the channel.
ResultsFrom(b) ==
    {i \in 1..Len(op.received \o op.resultsChan) :
        (op.received \o op.resultsChan)[i].from = b}

\* C25: FindMissing of the sharding adapter passes each digest of its input
\* to exactly one back end, the one Get and Put choose for it; it calls
\* FindMissing once on each back end that got a digest and on no other; with
\* an empty input it contacts no back end and returns an empty list without
\* error.
C25_EachDigestToItsOneBackend ==
    op.name = "FindMissing" =>
        /\ SumOfLengths(op.digestsPerBackend, DOMAIN op.digestsPerBackend) = Len(op.batch)
        /\ \A i \in 1..Len(op.batch) :
             LET b == getBackend(shard, op.batch[i])
             IN  /\ b \in DOMAIN op.digestsPerBackend
                 /\ \E j \in 1..Len(op.digestsPerBackend[b]) :
                       op.digestsPerBackend[b][j] = op.batch[i]
        /\ \A b \in DOMAIN op.digestsPerBackend :
             /\ op.digestsPerBackend[b] # <<>>
             /\ \A j \in 1..Len(op.digestsPerBackend[b]) :
                  getBackend(shard, op.digestsPerBackend[b][j]) = b
        /\ DOMAIN op.goroutines = DOMAIN op.digestsPerBackend
        /\ \A b \in Slots :
             Cardinality(ResultsFrom(b)) =
                 IF b \in DOMAIN op.goroutines /\ op.goroutines[b] = "returned"
                 THEN 1 ELSE 0
        /\ op.phase = "done" =>
             \A b \in DOMAIN op.goroutines : op.goroutines[b] = "returned"
        /\ op.batch = <<>> =>
             /\ DOMAIN op.digestsPerBackend = {}
             /\ op.phase = "done" /\ op.res = "OK" /\ op.missing = <<>>

\* A batch of two digests that went to two back ends, both of which answered.
C25_Witness ==
    /\ op.name = "FindMissing"
    /\ op.phase = "done"
    /\ Len(op.batch) = 2
    /\ Cardinality(DOMAIN op.digestsPerBackend) = 2
    /\ Len(op.received) = 2


---------------------------------------------------------------------------
(* Claims about the goroutines of the sharding FindMissing, under           *)
(* SpecFanOutFair.                                                          *)

Started == {b \in DOMAIN op.goroutines : op.goroutines[b] # "unstarted"}

SentBy(b) ==
    {i \in 1..Len(op.received \o op.resultsChan) :
        (op.received \o op.resultsChan)[i].from = b}

\* No goroutine that has a result to send finds the channel full; a goroutine
\* has sent once when it has ended and not before; the caller has received as
\* many results as it started goroutines when it returns.
GoroutinesNeverBlock ==
    /\ \A b \in DOMAIN op.goroutines :
         /\ op.goroutines[b] = "sending" => Len(op.resultsChan) < op.capacity
         /\ Cardinality(SentBy(b)) = IF op.goroutines[b] = "exited" THEN 1 ELSE 0
    /\ op.phase = "returned" =>
         /\ Len(op.received) = Cardinality(Started)
         /\ Started = DOMAIN op.goroutines
         /\ op.resultsChan = <<>>

AllBackendsReturned ==
    \A b \in DOMAIN op.goroutines : op.goroutines[b] \in {"sending", "exited"}

FindMissingReturned ==
    /\ op.phase = "returned"
    /\ \A b \in DOMAIN op.goroutines : op.goroutines[b] = "exited"

\* C26: every goroutine FindMissing starts sends its result exactly once and
\* never finds the channel full, the caller receives as many results as it
\* started goroutines, and once every contacted back end has returned the
\* call returns with no goroutine left behind, whatever the interleaving.
C26_GoroutinesSendOnceAndJoin ==
    /\ []GoroutinesNeverBlock
    /\ AllBackendsReturned ~> FindMissingReturned

\* Two goroutines were started, the first had sent before the second's back
\* end answered, and the call has returned both results.
C26_Witness ==
    /\ op.phase = "returned"
    /\ Cardinality(DOMAIN op.goroutines) = 2
    /\ Len(op.received) = 2
    /\ \A b \in DOMAIN op.goroutines : op.goroutines[b] = "exited"


---------------------------------------------------------------------------
(* Claims about the hash of getBackend, under SpecHash.                     *)

\* The bytes of a character of a key in UTF-8.
Utf8(c) == IF c = "U+00E9" THEN <<195, 169>> ELSE <<CharCode(c)>>

KeyBytes(key) == Concatenation([i \in 1..Len(key) |-> Utf8(key[i])])

\* FNV-1a over bytes: h becomes ((h XOR b) * 1099511628211) mod 2^64.
RECURSIVE Fnv1aOverBytes(_, _)
Fnv1aOverBytes(h, bytes) ==
    IF bytes = <<>> THEN h
    ELSE Fnv1aOverBytes(mulUint64(xorUint64(h, Head(bytes))), Tail(bytes))

\* C27: the hash handed to the shard selector is FNV-1a over the bytes of the
\* digest's key, from the configured constant; and in the key format without
\* instance it is the hash of the same digest in the default instance.
C27_HashIsFnv1aOverKeyBytes ==
    op.phase = "done" =>
        /\ op.h = Fnv1aOverBytes(shard.hashInitialization,
                                 KeyBytes(GetKey(focus, shard.digestKeyFormat)))
        /\ shard.digestKeyFormat = "WithoutInstance" =>
             op.h = Fnv1aOverBytes(shard.hashInitialization,
                        KeyBytes(GetKey([focus EXCEPT !.instance = <<>>],
                                        shard.digestKeyFormat)))

\* The same for keys of one byte per character.
C27_HashIsFnv1aOverAsciiKey ==
    (\A i \in 1..Len(focus.instance) : focus.instance[i] # "U+00E9")
        => C27_HashIsFnv1aOverKeyBytes

\* The hash is computed over the characters of the key.
C27_HashIsOverKeyCharacters ==
    op.phase = "done" =>
        op.h = fnv1a(shard.hashInitialization, GetKey(focus, shard.digestKeyFormat))


---------------------------------------------------------------------------
(* Claims about the readers over streams, under SpecStreams.                *)

\* The data of the messages of a stream up to its end or, on a Write stream,
\* up to the request the reader refuses.
StreamData(stream) ==
    Flatten(SubSeq(stream.chunks, 1,
                   IF stream.badAt = 0 THEN Len(stream.chunks)
                   ELSE stream.badAt - 1))

\* The data of the messages not yet received that the reader will accept.
DataToCome ==
    LET good == {i \in 1..Len(calls) :
                    \A j \in 1..i : /\ calls[j].err = "nil"
                                    /\ Len(focus.chunks) + 1 - Len(calls) + j # focus.badAt}
    IN  Flatten([i \in 1..Cardinality(good) |-> calls[i].data])

\* How the stream ends for its reader.
StreamEnd(stream) == IF stream.badAt = 0 THEN stream.end ELSE "Unknown"

\* C28: whatever the sizes of the caller's buffers, each of the two readers
\* delivers the data of the stream's messages in order, with nothing lost and
\* nothing twice, and tells of the end or of an error only when every byte
\* before it was delivered.
C28_ReadersDeliverTheStream ==
    /\ op.res # "panic"
    /\ op.phase = "reading" =>
         op.delivered \o rd.data \o rd.partial \o DataToCome = StreamData(focus)
    /\ (op.phase = "ended" /\ focus.chunks # <<>>) =>
         /\ op.delivered = StreamData(focus)
         /\ op.res = StreamEnd(focus)

\* The same for streams of at least one message.
C28_ReadersDeliverNonEmptyStream ==
    focus.chunks # <<>> => C28_ReadersDeliverTheStream


---------------------------------------------------------------------------
(* Claims about the worker loop, under SpecLoopFair.                        *)

\* Worker w takes a request from the stream in this step.
ReceivesRequest(w) == op[w].pc = "Recv" /\ op'[w].owes

\* Worker w is asking for work: it waits for a request or is about to
\* subscribe.
Asking(w) == op[w].pc \in {"GetWork", "Recv"}

\* C29: a worker receives a request only when it has called Send for the
\* request before, so that requests and responses alternate, and whatever
\* fails, every worker is again and again asking the scheduler for work.
C29_WorkersAlternateAndKeepAsking ==
    /\ [][\A w \in Workers : ReceivesRequest(w) => ~op[w].owes]_vars
    /\ \A w \in Workers : []<>Asking(w)

\* Requests and responses alternate but for requests whose URL did not parse.
C29_AlternateUnlessUrlFails ==
    [][\A w \in Workers : ReceivesRequest(w) =>
            (~op[w].owes \/ urlParseFails(actionPath(op[w].request)))]_vars

\* Unless the process panics, every worker keeps asking.
C29_KeepAskingUnlessPanic ==
    \A w \in Workers : []<>(Asking(w) \/ op[w].pc = "panic")

=============================================================================
